---- MODULE Spec2Model ----
(***************************************************************************)
(* twitch-vod-messages: the parallel harvest (fetchAllMessages), its       *)
(* bounded-range collector (fetchMessagesFromOffset) and the length probe  *)
(* (probeVideoLength), as a state machine.  One action is one continuation *)
(* of the single-threaded event loop: the arrival of one HTTP response and  *)
(* everything the code does synchronously after it, up to the next await.  *)
(***************************************************************************)
EXTENDS Integers, Sequences, FiniteSets, TLC

VARIABLES
    upstream,        \* the remote endpoint: how it answers a page request
    options,         \* the options of the fetchAllMessages call
    pc,              \* where fetchAllMessages is
    lengthSeconds,   \* const lengthSeconds (None before it is resolved)
    probeResults,    \* probeVideoLength: one entry per probe, in ladder order
    chunks,          \* const chunks: the ranges built by the partition
    col,             \* one fetchMessagesFromOffset call per chunk (or the fallback one)
    completedChunks, \* let completedChunks
    progress,        \* the arguments onProgress was called with, in call order
    settled,         \* the chunk indices in the order their collectors settled
    result,          \* the array the call resolved with
    error,           \* the error the call rejected with
    page,            \* fetchMessages: its page request
    client           \* createTwitchClient: the closure of fetchNext and its calls

vars == <<upstream, options, pc, lengthSeconds, probeResults, chunks, col,
          completedChunks, progress, settled, result, error, page, client>>

----------------------------------------------------------------------------
(* Bounds of the model. *)

\* The largest lengthSeconds and the largest concurrency of the partitions.
MaxLength == 16
MaxConcurrency == 16

\* The most page requests of one collector call where the requests of a
\* call are counted; a served video needs fewer.
MaxCollectorRequests == 8

\* The most calls of fetchNext on one client.
MaxCalls == 4

\* The most page requests of one client against an unconstrained upstream.
MaxFreePages == 2

\* The collectors of one call send at most this many page requests in all
\* against an unconstrained upstream, which may never end the stream.
MaxRequests == 3

\* The most edges in one page of the unconstrained upstream.
MaxEdges == 2

\* The most comments of a served video.
MaxComments == 3

\* The largest page size of a served video.
MaxPageSize == 2

\* undefined (an option that is not supplied, a call without endOffset)
None == -1

----------------------------------------------------------------------------
(* Helpers. *)

Min(a, b) == IF a < b THEN a ELSE b

\* MathCeilDiv with Math.floor for Math.ceil.
MathFloorDiv(a, b) == a \div b

\* Math.ceil(a / b) for integers a >= 0, b >= 1
MathCeilDiv(a, b) == (a + b - 1) \div b

SeqToSet(s) == {s[i] : i \in 1..Len(s)}

Last(s) == s[Len(s)]

RECURSIVE Flat(_)
\* results.flat(): the arrays of ss one after the other.
Flat(ss) ==
    IF ss = <<>> THEN <<>>
    ELSE IF Len(ss) = 1 THEN ss[1]
    ELSE LET half == Len(ss) \div 2
         IN  Flat(SubSeq(ss, 1, half)) \o Flat(SubSeq(ss, half + 1, Len(ss)))

----------------------------------------------------------------------------
(* Data. *)

\* A comment node: only the two fields the code reads.
Node(i, o) == [id |-> i, contentOffsetSeconds |-> o]

\* The answers to a page request.
Comments(edges, hnp) == [kind |-> "comments", edges |-> edges, hasNextPage |-> hnp]
CommentsNull == [kind |-> "null", edges |-> <<>>, hasNextPage |-> FALSE]
NotOk == [kind |-> "notOk", edges |-> <<>>, hasNextPage |-> FALSE, status |-> 500]
SchemaMismatch == [kind |-> "schemaMismatch", edges |-> <<>>, hasNextPage |-> FALSE]
EmptyArray == [kind |-> "emptyArray", edges |-> <<>>, hasNextPage |-> FALSE]

NoError == [name |-> "none", chunk |-> 0]

\* const endpointUrl
EndpointUrl == "https://gql.twitch.tv/gql"

\* new HttpError(statusCode, url)
HttpError(statusCode, url) ==
    [name |-> "HttpError", statusCode |-> statusCode, url |-> url]

\* new ResponseParseError(message)
ResponseParseError(message) ==
    [name |-> "ResponseParseError", message |-> message]

\* Nothing thrown.
NoThrown == [name |-> "none"]

\* ThrownBy with the two error classes swapped.
ThrownBySwapped(r) ==
    IF r.kind = "notOk"
    THEN ResponseParseError("Failed to parse GraphQL response")
    ELSE IF r.kind \in {"schemaMismatch", "emptyArray"}
    THEN HttpError(500, EndpointUrl)
    ELSE NoThrown

\* What the lines between the await fetch and "const comments" throw on the
\* response r; they are the same in the probes, the collector, fetchMessages
\* and fetchNext.
ThrownBy(r) ==
    IF r.kind = "notOk" THEN HttpError(r.status, EndpointUrl)
    ELSE IF r.kind = "schemaMismatch"
    THEN ResponseParseError("Failed to parse GraphQL response")
    ELSE IF r.kind = "emptyArray"
    THEN ResponseParseError("GraphQL response array is empty")
    ELSE NoThrown

----------------------------------------------------------------------------
(* The upstream. *)

\* A video: its comments in ascending offset order, ids 1..n in that order.
MakeVideo(offs) == [k \in 1..Len(offs) |-> Node(k, offs[k])]

\* The page a well-behaved endpoint serves for contentOffsetSeconds = o: the
\* next pageSize comments at or after o, hasNextPage iff more remain; past
\* the last comment either comments: null or an empty page.
ServePage(u, o) ==
    LET rest == SelectSeq(u.video, LAMBDA n : n.contentOffsetSeconds >= o)
    IN  IF rest = <<>>
        THEN IF u.nullPastEnd THEN CommentsNull ELSE Comments(<<>>, FALSE)
        ELSE Comments(SubSeq(rest, 1, Min(u.pageSize, Len(rest))),
                      Len(rest) > u.pageSize)

\* The nodes an unconstrained endpoint may put in a page: two ids, one of
\* them at two offsets.
FreeNodes == {Node(1, 1), Node(2, 0), Node(2, 1)}

FreeEdges == UNION {[1..n -> FreeNodes] : n \in 0..MaxEdges}

\* Everything an unconstrained endpoint may answer.
FreeResponses ==
    {Comments(e, h) : e \in FreeEdges, h \in BOOLEAN}
        \cup {CommentsNull, NotOk, SchemaMismatch, EmptyArray}

\* The answers the endpoint may give to a page request at offset o: a served
\* video's page, the failure of a failing endpoint at its failing offset,
\* the one page with a next page of a stalled endpoint, the page a fixed
\* endpoint has for o, or anything at all.
Responses(u, o) ==
    IF u.mode = "video" THEN {ServePage(u, o)}
    ELSE IF u.mode = "failing"
    THEN {IF o = u.failAt THEN u.failure ELSE ServePage(u, o)}
    ELSE IF u.mode = "stalled"
    THEN {Comments(u.video, TRUE)}
    ELSE IF u.mode = "fixed"
    THEN {IF o \in DOMAIN u.pages THEN u.pages[o] ELSE CommentsNull}
    ELSE FreeResponses

----------------------------------------------------------------------------
(* fetchMessagesFromOffset: one call is one record, with the locals nodes,  *)
(* set, offset and hasNextPage.  status "waiting" is a request in flight at *)
(* c.offset; "returned" and "thrown" are its ends; requests are the offsets *)
(* of the requests it has sent.                                             *)

NewCollector(startOffset, endOffset) ==
    [offset    |-> startOffset,
     endOffset |-> endOffset,
     nodes     |-> <<>>,
     set       |-> {},
     hasNextPage |-> TRUE,
     status    |-> "waiting",
     error     |-> "none",
     thrown    |-> NoThrown,
     requests  |-> <<startOffset>>]

\* BeyondEnd with > for >=: a node at endOffset itself passes.
BeyondEndStrict(endOffset, node) ==
    endOffset # None /\ node.contentOffsetSeconds > endOffset

\* if (endOffset !== undefined && node.contentOffsetSeconds >= endOffset)
BeyondEnd(endOffset, node) ==
    endOffset # None /\ node.contentOffsetSeconds >= endOffset

\* Pushed with "continue" for "break": the nodes beyond endOffset are
\* skipped and the later ones are pushed.
PushedSkipping(newNodes, endOffset) ==
    SelectSeq(newNodes, LAMBDA n : ~BeyondEnd(endOffset, n))

\* The for loop over newNodes: the nodes pushed before the first one beyond
\* endOffset.
Pushed(newNodes, endOffset) ==
    LET bad == {i \in 1..Len(newNodes) : BeyondEnd(endOffset, newNodes[i])}
    IN  IF bad = {} THEN newNodes
        ELSE SubSeq(newNodes, 1, (CHOOSE i \in bad : \A j \in bad : i <= j) - 1)

\* comments.edges.map((x) => x.node).filter((x) => !set.has(x.id))
NewNodes(edges, set) == SelectSeq(edges, LAMBDA n : n.id \notin set)

\* NextOffset from the first new node of the page instead of the last.
NextOffsetFirst(newNodes, offset) ==
    IF newNodes # <<>> THEN Head(newNodes).contentOffsetSeconds ELSE offset + 1

\* NextOffset without the "+ 1": the offset stays when the page brought no
\* new node.
NextOffsetStays(newNodes, offset) ==
    IF newNodes # <<>> THEN Last(newNodes).contentOffsetSeconds ELSE offset

\* offset = newNodes.at(-1)?.contentOffsetSeconds ?? offset + 1
NextOffset(newNodes, offset) ==
    IF newNodes # <<>> THEN Last(newNodes).contentOffsetSeconds ELSE offset + 1

\* OnResponse with a retry: a request that fails is sent again.
OnResponseRetrying(c, r) ==
    IF ThrownBy(r) # NoThrown
    THEN [c EXCEPT !.requests = Append(@, c.offset)]
    ELSE IF r.kind = "null"
    THEN [c EXCEPT !.status = "returned"]
    ELSE
        LET newNodes == NewNodes(r.edges, c.set)
            pushed   == Pushed(newNodes, c.endOffset)
            hitEnd   == Len(pushed) < Len(newNodes)
            nodes    == c.nodes \o pushed
            set      == c.set \cup {n.id : n \in SeqToSet(pushed)}
        IN  IF ~r.hasNextPage
            THEN [c EXCEPT !.nodes = nodes, !.set = set,
                           !.hasNextPage = ~hitEnd, !.status = "returned"]
            ELSE LET offset == NextOffset(newNodes, c.offset)
                 IN  IF hitEnd
                     THEN [c EXCEPT !.nodes = nodes, !.set = set,
                                    !.hasNextPage = FALSE,
                                    !.offset = offset, !.status = "returned"]
                     ELSE [c EXCEPT !.nodes = nodes, !.set = set,
                                    !.offset = offset,
                                    !.requests = Append(@, offset)]

\* OnResponse with the test of pageInfo.hasNextPage moved before the for
\* loop: the nodes of the last page are not appended.
OnResponseDropsLast(c, r) ==
    IF ThrownBy(r) # NoThrown
    THEN [c EXCEPT !.status = "thrown", !.error = ThrownBy(r).name,
                   !.thrown = ThrownBy(r)]
    ELSE IF r.kind = "null"
    THEN [c EXCEPT !.status = "returned"]
    ELSE IF ~r.hasNextPage
    THEN [c EXCEPT !.status = "returned"]
    ELSE
        LET newNodes == NewNodes(r.edges, c.set)
            pushed   == Pushed(newNodes, c.endOffset)
            hitEnd   == Len(pushed) < Len(newNodes)
            nodes    == c.nodes \o pushed
            set      == c.set \cup {n.id : n \in SeqToSet(pushed)}
            offset   == NextOffset(newNodes, c.offset)
        IN  IF hitEnd
            THEN [c EXCEPT !.nodes = nodes, !.set = set,
                           !.hasNextPage = FALSE,
                           !.offset = offset, !.status = "returned"]
            ELSE [c EXCEPT !.nodes = nodes, !.set = set,
                           !.offset = offset,
                           !.requests = Append(@, offset)]

\* The collector c after the response r to its request in flight: the rest
\* of the loop body, the loop test and, if the loop goes on, the next
\* request.
OnResponse(c, r) ==
    IF ThrownBy(r) # NoThrown
    THEN [c EXCEPT !.status = "thrown", !.error = ThrownBy(r).name,
                   !.thrown = ThrownBy(r)]
    ELSE IF r.kind = "null"
    THEN [c EXCEPT !.status = "returned"]
    ELSE
        LET newNodes == NewNodes(r.edges, c.set)
            pushed   == Pushed(newNodes, c.endOffset)
            hitEnd   == Len(pushed) < Len(newNodes)
            nodes    == c.nodes \o pushed
            set      == c.set \cup {n.id : n \in SeqToSet(pushed)}
        IN  IF ~r.hasNextPage
            THEN [c EXCEPT !.nodes = nodes, !.set = set,
                           !.hasNextPage = ~hitEnd, !.status = "returned"]
            ELSE LET offset == NextOffset(newNodes, c.offset)
                 IN  IF hitEnd
                     THEN [c EXCEPT !.nodes = nodes, !.set = set,
                                    !.hasNextPage = FALSE,
                                    !.offset = offset, !.status = "returned"]
                     ELSE [c EXCEPT !.nodes = nodes, !.set = set,
                                    !.offset = offset,
                                    !.requests = Append(@, offset)]

----------------------------------------------------------------------------
(* fetchAllMessages: the partition and the merge. *)

\* Chunks of one second each, whatever concurrency is.
ChunksOfOneSecond(length, concurrency) ==
    [k \in 1..length |-> [start |-> k - 1, end |-> k]]

\* Chunks without the "if (start < lengthSeconds)" test: one chunk for
\* every i < concurrency.
ChunksNoDrop(length, concurrency) ==
    LET chunkSize == MathCeilDiv(length, concurrency)
    IN  [k \in 1..concurrency |->
            [start |-> (k - 1) * chunkSize,
             end   |-> Min(k * chunkSize, length)]]

\* const chunkSize = Math.ceil(lengthSeconds / concurrency); the for loop
\* that pushes {start, end} for every i < concurrency with start < length.
Chunks(length, concurrency) ==
    LET chunkSize == MathCeilDiv(length, concurrency)
        kept == {i \in 0..(concurrency - 1) : i * chunkSize < length}
        \* the k-th i, in loop order, that passes the test
        ith(k) == CHOOSE i \in kept : Cardinality({j \in kept : j < i}) = k - 1
    IN  [k \in 1..Cardinality(kept) |->
            [start |-> ith(k) * chunkSize,
             end   |-> Min((ith(k) + 1) * chunkSize, length)]]

\* UniqueNodes with contentOffsetSeconds as the key of the Map instead of
\* id.
UniqueNodesByOffset(allNodes) ==
    LET firsts == SelectSeq([i \in 1..Len(allNodes) |-> i],
                            LAMBDA i : \A j \in 1..(i - 1) :
                                allNodes[j].contentOffsetSeconds #
                                    allNodes[i].contentOffsetSeconds)
        lastOf(i) == CHOOSE j \in 1..Len(allNodes) :
                        /\ allNodes[j].contentOffsetSeconds =
                               allNodes[i].contentOffsetSeconds
                        /\ \A k \in (j + 1)..Len(allNodes) :
                               allNodes[k].contentOffsetSeconds #
                                   allNodes[i].contentOffsetSeconds
    IN  [k \in 1..Len(firsts) |-> allNodes[lastOf(firsts[k])]]

\* UniqueNodes with the first node of every id kept, as a filter on ids
\* already seen would.
UniqueNodesFirst(allNodes) ==
    SelectSeq([i \in 1..Len(allNodes) |->
                  IF \A j \in 1..(i - 1) : allNodes[j].id # allNodes[i].id
                  THEN allNodes[i] ELSE Node(0, 0)],
              LAMBDA n : n.id # 0)

\* Array.from(new Map(allNodes.map((node) => [node.id, node])).values()):
\* a Map keeps a key at the place of its first insertion and holds the value
\* of its last one.
UniqueNodes(allNodes) ==
    LET firsts == SelectSeq([i \in 1..Len(allNodes) |-> i],
                            LAMBDA i : \A j \in 1..(i - 1) :
                                           allNodes[j].id # allNodes[i].id)
        lastOf(i) == CHOOSE j \in 1..Len(allNodes) :
                        /\ allNodes[j].id = allNodes[i].id
                        /\ \A k \in (j + 1)..Len(allNodes) :
                               allNodes[k].id # allNodes[i].id
    IN  [k \in 1..Len(firsts) |-> allNodes[lastOf(firsts[k])]]

\* InsertSorted for a sort that is not stable: n goes before the nodes of
\* its own offset.
InsertSortedBeforeEqual(sorted, n) ==
    LET after == {i \in 1..Len(sorted) :
                     sorted[i].contentOffsetSeconds < n.contentOffsetSeconds}
        k == IF after = {} THEN 0 ELSE CHOOSE i \in after : \A j \in after : j <= i
    IN  SubSeq(sorted, 1, k) \o <<n>> \o SubSeq(sorted, k + 1, Len(sorted))

\* One step of the sort: n goes after every node it does not precede.
InsertSorted(sorted, n) ==
    LET after == {i \in 1..Len(sorted) :
                     sorted[i].contentOffsetSeconds <= n.contentOffsetSeconds}
        k == IF after = {} THEN 0 ELSE CHOOSE i \in after : \A j \in after : j <= i
    IN  SubSeq(sorted, 1, k) \o <<n>> \o SubSeq(sorted, k + 1, Len(sorted))

\* uniqueNodes.sort((a, b) => a.contentOffsetSeconds - b.contentOffsetSeconds):
\* Array.prototype.sort is stable.
SortByOffset(nodes) ==
    LET F[i \in 0..Len(nodes)] ==
            IF i = 0 THEN <<>> ELSE InsertSorted(F[i - 1], nodes[i])
    IN  F[Len(nodes)]

\* Steps 4 of fetchAllMessages.
Merge(results) ==
    CHOOSE sorted \in
        {SortByOffset(uniqueNodes) :
            uniqueNodes \in {UniqueNodes(allNodes) :
                                allNodes \in {Flat(results)}}} : TRUE

\* The half-integers k + 0.5 at which the double (completedChunks /
\* chunks.length) * 100 falls below the tie: the quotient (2k + 1) / 200 is
\* rounded down to a double whose product with 100 rounds to the double
\* just below k + 0.5.
DoubleBelowTie == {14, 28, 56, 57}

\* Percentage with Math.floor for Math.round.
PercentageFloor(completed, total) == (100 * completed) \div total

\* Math.round((completedChunks / chunks.length) * 100) in IEEE-754 double
\* arithmetic: Math.round rounds a tie upwards.
Percentage(completed, total) ==
    LET halfUp == (200 * completed + total) \div (2 * total)
        tie    == (200 * completed) % (2 * total) = total
    IN  IF tie /\ (halfUp - 1) \in DoubleBelowTie THEN halfUp - 1 ELSE halfUp

\* Progress with onProgress called before completedChunks++.
ProgressBeforeIncrement(total, completed) ==
    [totalChunks     |-> total,
     completedChunks |-> completed - 1,
     percentage      |-> Percentage(completed - 1, total)]

\* The argument of the onProgress call.
Progress(total, completed) ==
    [totalChunks     |-> total,
     completedChunks |-> completed,
     percentage      |-> Percentage(completed, total)]

----------------------------------------------------------------------------
(* probeVideoLength. *)

\* probeInterval: number = 3600
ProbeInterval == 3600

\* ProbeOffsets with the second loop from 4 instead of 8: 4 intervals is
\* probed twice.
ProbeOffsetsFromFour(probeInterval) ==
    <<0>> \o [i \in 1..5 |-> i * probeInterval]
          \o [k \in 1..12 |-> (4 + 4 * (k - 1)) * probeInterval]

\* const probeOffsets = [0]; for (i = 1; i <= 5; i++) push(i * interval);
\* for (i = 8; i <= 48; i += 4) push(i * interval)
ProbeOffsets(probeInterval) ==
    <<0>> \o [i \in 1..5 |-> i * probeInterval]
          \o [k \in 1..11 |-> (8 + 4 * (k - 1)) * probeInterval]

NewProbe(offset) ==
    [offset |-> offset, status |-> "waiting", error |-> "none",
     thrown |-> NoThrown, hasNextPage |-> FALSE, maxOffsetSeconds |-> 0]

\* OnProbeResponse with the failures caught: a probe that fails counts as
\* one that found the end at its own offset.
OnProbeResponseCaught(p, r) ==
    [p EXCEPT
        !.status = "ok",
        !.hasNextPage = IF r.kind = "comments" THEN r.hasNextPage ELSE FALSE,
        !.maxOffsetSeconds =
            IF r.kind = "comments" /\ r.edges # <<>>
            THEN Last(r.edges).contentOffsetSeconds ELSE p.offset]

\* The probe p after the response r to its request: the body of the map
\* callback after the await.
OnProbeResponse(p, r) ==
    IF ThrownBy(r) # NoThrown
    THEN [p EXCEPT !.status = "thrown", !.error = ThrownBy(r).name,
                   !.thrown = ThrownBy(r)]
    ELSE [p EXCEPT
            !.status = "ok",
            !.hasNextPage = IF r.kind = "comments" THEN r.hasNextPage ELSE FALSE,
            !.maxOffsetSeconds =
                IF r.kind = "comments" /\ r.edges # <<>>
                THEN Last(r.edges).contentOffsetSeconds ELSE p.offset]

\* Estimate with findLast for find: the last probe with hasNextPage false.
EstimateLastEnd(results) ==
    LET ends == {i \in 1..Len(results) : ~results[i].hasNextPage}
    IN  IF ends # {}
        THEN results[CHOOSE i \in ends : \A j \in ends : j <= i].maxOffsetSeconds
        ELSE IF results # <<>>
        THEN Last(results).maxOffsetSeconds * 2
        ELSE 0

\* Estimate without the doubling of the last probe.
EstimateNotDoubled(results) ==
    LET ends == {i \in 1..Len(results) : ~results[i].hasNextPage}
    IN  IF ends # {}
        THEN results[CHOOSE i \in ends : \A j \in ends : i <= j].maxOffsetSeconds
        ELSE IF results # <<>>
        THEN Last(results).maxOffsetSeconds
        ELSE 0

\* The lines after the await Promise.all: the first probe, in ladder order,
\* with hasNextPage false, else twice the last probe, else 0.
Estimate(results) ==
    LET ends == {i \in 1..Len(results) : ~results[i].hasNextPage}
    IN  IF ends # {}
        THEN results[CHOOSE i \in ends : \A j \in ends : i <= j].maxOffsetSeconds
        ELSE IF results # <<>>
        THEN Last(results).maxOffsetSeconds * 2
        ELSE 0

----------------------------------------------------------------------------
(* fetchAllMessages: the call. *)

Waiting(c) == c.status = "waiting"

\* Harvest without the "if (lengthSeconds === 0)" return.
HarvestNoFallback(length) ==
    LET cs == IF options.concurrency <= 0 THEN <<>>
              ELSE Chunks(length, options.concurrency)
    IN  /\ lengthSeconds' = length
        /\ chunks' = cs
        /\ col' = [i \in 1..Len(cs) |-> NewCollector(cs[i].start, cs[i].end)]
        /\ pc' = IF cs = <<>> THEN "resolved" ELSE "chunks"
        /\ result' = <<>>

\* Harvest with the fallback made as a harvest of one chunk without end.
HarvestFallbackAsChunk(length) ==
    /\ lengthSeconds' = length
    /\ IF length = 0
       THEN /\ chunks' = <<[start |-> 0, end |-> None]>>
            /\ col' = <<NewCollector(0, None)>>
            /\ pc' = "chunks"
            /\ result' = <<>>
       ELSE LET cs == IF options.concurrency <= 0 THEN <<>>
                      ELSE Chunks(length, options.concurrency)
            IN  /\ chunks' = cs
                /\ col' = [i \in 1..Len(cs) |-> NewCollector(cs[i].start, cs[i].end)]
                /\ pc' = IF cs = <<>> THEN "resolved" ELSE "chunks"
                /\ result' = <<>>

\* Harvest that resolves a length of 0 to the empty array without the
\* fallback call.
HarvestEmptyAtZero(length) ==
    /\ lengthSeconds' = length
    /\ IF length = 0
       THEN /\ chunks' = <<>>
            /\ col' = <<>>
            /\ pc' = "resolved"
            /\ result' = <<>>
       ELSE LET cs == IF options.concurrency <= 0 THEN <<>>
                      ELSE Chunks(length, options.concurrency)
            IN  /\ chunks' = cs
                /\ col' = [i \in 1..Len(cs) |-> NewCollector(cs[i].start, cs[i].end)]
                /\ pc' = IF cs = <<>> THEN "resolved" ELSE "chunks"
                /\ result' = <<>>

\* Harvest that rejects when the partition has no chunk.
HarvestRejectingNoChunk(length) ==
    /\ lengthSeconds' = length
    /\ IF length = 0
       THEN /\ chunks' = <<>>
            /\ col' = <<NewCollector(0, None)>>
            /\ pc' = "fallback"
            /\ result' = <<>>
       ELSE LET cs == IF options.concurrency <= 0 THEN <<>>
                      ELSE Chunks(length, options.concurrency)
            IN  /\ chunks' = cs
                /\ col' = [i \in 1..Len(cs) |-> NewCollector(cs[i].start, cs[i].end)]
                /\ pc' = IF cs = <<>> THEN "rejected" ELSE "chunks"
                /\ result' = <<>>

\* The lines from "if (lengthSeconds === 0)" to the call of Promise.all: the
\* fallback call, or the partition and one collector call per chunk, each
\* with its first request sent.
Harvest(length) ==
    /\ lengthSeconds' = length
    /\ IF length = 0
       THEN /\ chunks' = <<>>
            /\ col' = <<NewCollector(0, None)>>
            /\ pc' = "fallback"
            /\ result' = <<>>
       ELSE LET cs == IF options.concurrency <= 0 THEN <<>>
                      ELSE Chunks(length, options.concurrency)
            IN  /\ chunks' = cs
                /\ col' = [i \in 1..Len(cs) |-> NewCollector(cs[i].start, cs[i].end)]
                /\ pc' = IF cs = <<>> THEN "resolved" ELSE "chunks"
                /\ result' = <<>>

\* ResolveLength that ignores options.lengthSeconds and always probes.
ResolveLengthAlwaysProbe(opts) == None

\* const lengthSeconds = options?.lengthSeconds ?? (await probeVideoLength())
ResolveLength(opts) ==
    IF opts.lengthSeconds # None THEN opts.lengthSeconds ELSE None

\* retrieveClientId answers: the page with the client id, a response that is
\* not ok, or a page without clientId=".
ClientIdResponse(outcome) ==
    /\ pc = "clientId"
    /\ IF outcome = "ok"
       THEN LET length == ResolveLength(options)
            IN  IF length # None
                THEN /\ Harvest(length)
                     /\ UNCHANGED <<probeResults, error>>
                ELSE /\ probeResults' =
                            [k \in 1..Len(ProbeOffsets(ProbeInterval)) |->
                                NewProbe(ProbeOffsets(ProbeInterval)[k])]
                     /\ pc' = "probe"
                     /\ UNCHANGED <<lengthSeconds, chunks, col, result, error>>
       ELSE /\ pc' = "rejected"
            /\ error' = [name  |-> IF outcome = "notOk" THEN "HttpError"
                                   ELSE "ClientIdRetrievalError",
                         chunk |-> 0]
            /\ UNCHANGED <<lengthSeconds, probeResults, chunks, col, result>>
    /\ UNCHANGED <<upstream, options, completedChunks, progress, settled,
                   page, client>>

\* The response to probe k arrives.  Promise.all rejects with the first probe
\* that throws and resolves, in ladder order, when the last one is answered.
ProbeResponse(k) ==
    /\ pc \in {"probe", "rejected"}
    /\ k \in 1..Len(probeResults)
    /\ probeResults[k].status = "waiting"
    /\ \E r \in Responses(upstream, probeResults[k].offset) :
        LET p  == OnProbeResponse(probeResults[k], r)
            ps == [probeResults EXCEPT ![k] = p]
        IN  /\ probeResults' = ps
            /\ IF pc # "probe"
               THEN UNCHANGED <<pc, error, lengthSeconds, chunks, col, result>>
               ELSE IF p.status = "thrown"
               THEN /\ pc' = "rejected"
                    /\ error' = [name |-> p.error, chunk |-> 0]
                    /\ UNCHANGED <<lengthSeconds, chunks, col, result>>
               ELSE IF \A i \in 1..Len(ps) : ps[i].status = "ok"
               THEN /\ Harvest(Estimate(ps))
                    /\ UNCHANGED error
               ELSE UNCHANGED <<pc, error, lengthSeconds, chunks, col, result>>
    /\ UNCHANGED <<upstream, options, completedChunks, progress, settled,
                   page, client>>

RECURSIVE Sent(_)
\* The page requests the collector calls cs have sent.
Sent(cs) == IF cs = <<>> THEN 0 ELSE Len(Head(cs).requests) + Sent(Tail(cs))

AllReturned(cs) == \A i \in 1..Len(cs) : cs[i].status = "returned"

\* Results in the order in which the calls settled, the call that settles
\* now last, instead of the order of the chunks.
ResultsAsSettled(cs) ==
    LET last  == CHOOSE i \in 1..Len(cs) : \A k \in 1..Len(settled) : settled[k] # i
        order == Append(settled, last)
    IN  [k \in 1..Len(cs) |-> cs[order[k]].nodes]

\* const results = await Promise.all(...)
Results(cs) == [i \in 1..Len(cs) |-> cs[i].nodes]

\* Settle with Promise.allSettled for Promise.all: a call that throws
\* counts as one that returned.
SettleAllSettled(p, c, cs) ==
    IF p \in {"rejected", "resolved"} \/ Waiting(c) THEN p
    ELSE IF \A i \in 1..Len(cs) : ~Waiting(cs[i]) THEN "resolved"
    ELSE p

\* Where fetchAllMessages is after collector call c, one of the calls cs, has
\* taken a step from p: the promise of the fallback call is the returned
\* one; Promise.all rejects with the first call that throws and is fulfilled
\* when every call has returned; a settled promise stays as it is.
Settle(p, c, cs) ==
    IF p \in {"rejected", "resolved"} \/ Waiting(c) THEN p
    ELSE IF c.status = "thrown" THEN "rejected"
    ELSE IF AllReturned(cs) THEN "resolved"
    ELSE p

\* Running with the collector calls aborted when Promise.all rejects.
RunningUntilRejected(p) == p \in {"chunks", "fallback"}

\* While fetchAllMessages is at p a collector call handles the response it
\* awaits: fetch gets no abort signal, so a call goes on after Promise.all
\* has rejected.
Running(p) == p \in {"chunks", "fallback", "rejected"}

\* The response to the request in flight of collector i arrives.  In the
\* chunk phase the map callback goes on after the collector returns:
\* completedChunks++ and the onProgress call.
CollectorResponse(i) ==
    /\ Running(pc)
    /\ i \in 1..Len(col)
    /\ Waiting(col[i])
    /\ \E r \in Responses(upstream, col[i].offset) :
       \E c \in {OnResponse(col[i], r)} :
       \E cs \in {[col EXCEPT ![i] = c]} :
        LET partitioned == chunks # <<>>
        IN  /\ upstream.mode = "free" => Sent(cs) <= MaxRequests
            /\ col' = cs
            /\ settled' = IF Waiting(c) THEN settled ELSE Append(settled, i)
            /\ IF c.status = "returned" /\ partitioned
               THEN /\ completedChunks' = completedChunks + 1
                    /\ progress' =
                          IF options.onProgress
                          THEN Append(progress,
                                      Progress(Len(chunks), completedChunks + 1))
                          ELSE progress
               ELSE UNCHANGED <<completedChunks, progress>>
            /\ pc' = Settle(pc, c, cs)
            /\ error' = IF pc' = "rejected" /\ pc # "rejected"
                        THEN [name |-> c.error, chunk |-> i] ELSE error
            /\ result' = IF pc' = "resolved"
                         THEN IF partitioned THEN Merge(Results(cs)) ELSE c.nodes
                         ELSE result
    /\ UNCHANGED <<upstream, options, lengthSeconds, probeResults, chunks,
                   page, client>>

----------------------------------------------------------------------------
(* retrieveClientId, as fetchMessages and createTwitchClient await it. *)

\* What retrieveClientId throws: HttpError with the URL of the video page
\* when the response is not ok, ClientIdRetrievalError when the page has no
\* clientId=".
ClientIdThrown(outcome) ==
    IF outcome = "notOk" THEN HttpError(500, "https://www.twitch.tv/videos/")
    ELSE IF outcome = "noClientId" THEN [name |-> "ClientIdRetrievalError"]
    ELSE NoThrown

----------------------------------------------------------------------------
(* fetchMessages: page is its one page request, "waiting" while in flight,  *)
(* with the response it got once "answered".                                *)

NoResponse == [kind |-> "none", edges |-> <<>>, hasNextPage |-> FALSE]

\* NoPage with the page request sent as fetchMessages is called, before the
\* client id is there.
NoPageRequested == [offset |-> 0, status |-> "waiting", response |-> NoResponse]

NoPage == [offset |-> None, status |-> "none", response |-> NoResponse]

\* const contentOffsetSeconds = options?.contentOffsetSeconds ?? 0
ContentOffsetSeconds(opts) ==
    IF opts.contentOffsetSeconds # None THEN opts.contentOffsetSeconds ELSE 0

\* PageNodes with the nodes of one id reduced to one.
PageNodesUnique(r) == IF r.kind = "null" THEN <<>> ELSE UniqueNodes(r.edges)

\* if (comments == null) return {nodes: []};
\* const nodes = comments.edges.map((x) => x.node)
PageNodes(r) == IF r.kind = "null" THEN <<>> ELSE r.edges

\* retrieveClientId answers the call of fetchMessages, which sends its page
\* request or rejects.
FetchMessagesClientIdResponse(outcome) ==
    /\ pc = "clientId"
    /\ IF outcome = "ok"
       THEN /\ page' = [offset   |-> ContentOffsetSeconds(options),
                        status   |-> "waiting",
                        response |-> NoResponse]
            /\ pc' = "page"
            /\ UNCHANGED error
       ELSE /\ pc' = "rejected"
            /\ error' = ClientIdThrown(outcome)
            /\ UNCHANGED page
    /\ UNCHANGED <<upstream, options, lengthSeconds, probeResults, chunks, col,
                   completedChunks, progress, settled, result, client>>

\* The response to the page request of fetchMessages arrives.
FetchMessagesResponse ==
    /\ pc = "page"
    /\ Waiting(page)
    /\ \E r \in Responses(upstream, page.offset) :
        /\ page' = [page EXCEPT !.status = "answered", !.response = r]
        /\ IF ThrownBy(r) # NoThrown
           THEN /\ pc' = "rejected"
                /\ error' = ThrownBy(r)
                /\ UNCHANGED result
           ELSE /\ pc' = "resolved"
                /\ result' = PageNodes(r)
                /\ UNCHANGED error
    /\ UNCHANGED <<upstream, options, lengthSeconds, probeResults, chunks, col,
                   completedChunks, progress, settled, client>>

----------------------------------------------------------------------------
(* createTwitchClient: client holds the variables fetchNext closes over     *)
(* (offset, hasNextPage, set) and the calls of fetchNext in call order.  A  *)
(* call is "waiting" while its request, sent at offset request, is in       *)
(* flight; a call that sent none has request = None.                        *)

\* let offset = offsetSeconds; let hasNextPage = true; const set = new Set()
NewClient(offsetSeconds) ==
    [offset |-> offsetSeconds, hasNextPage |-> TRUE, set |-> {}, calls |-> <<>>]

NoClient == NewClient(None)

\* offsetSeconds = 0
OffsetSeconds(opts) ==
    IF opts.offsetSeconds # None THEN opts.offsetSeconds ELSE 0

\* A call that has sent its request at offset.
NewCall(offset) ==
    [request |-> offset, status |-> "waiting", response |-> NoResponse,
     nodes |-> <<>>, hasNextPage |-> FALSE, thrown |-> NoThrown]

\* if (!hasNextPage) return {nodes: [], hasNextPage}
EndedCall(hasNextPage) ==
    [request |-> None, status |-> "returned", response |-> NoResponse,
     nodes |-> <<>>, hasNextPage |-> hasNextPage, thrown |-> NoThrown]

\* FetchNext without the "if (!hasNextPage)" return.
FetchNextNoEnd(c) == [c EXCEPT !.calls = Append(@, NewCall(c.offset))]

\* fetchNext is called: the lines up to the await fetch.
FetchNext(c) ==
    IF ~c.hasNextPage
    THEN [c EXCEPT !.calls = Append(@, EndedCall(c.hasNextPage))]
    ELSE [c EXCEPT !.calls = Append(@, NewCall(c.offset))]

\* OnFetchNextResponse without the loop of set.add: no id is ever seen.
OnFetchNextResponseNoAdd(c, k, r) ==
    LET call == c.calls[k]
    IN  IF ThrownBy(r) # NoThrown
        THEN [c EXCEPT !.calls[k] =
                [call EXCEPT !.status = "thrown", !.response = r,
                             !.thrown = ThrownBy(r)]]
        ELSE IF r.kind = "null"
        THEN [c EXCEPT !.hasNextPage = FALSE,
                       !.calls[k] =
                           [call EXCEPT !.status = "returned", !.response = r,
                                        !.hasNextPage = FALSE]]
        ELSE LET nodes == NewNodes(r.edges, c.set)
             IN  [c EXCEPT !.offset = NextOffset(nodes, c.offset),
                           !.hasNextPage = r.hasNextPage,
                           !.calls[k] =
                               [call EXCEPT !.status = "returned",
                                            !.response = r,
                                            !.nodes = nodes,
                                            !.hasNextPage = r.hasNextPage]]

\* OnFetchNextResponse without the filter on the set of seen ids.
OnFetchNextResponseUnfiltered(c, k, r) ==
    LET call == c.calls[k]
    IN  IF ThrownBy(r) # NoThrown
        THEN [c EXCEPT !.calls[k] =
                [call EXCEPT !.status = "thrown", !.response = r,
                             !.thrown = ThrownBy(r)]]
        ELSE IF r.kind = "null"
        THEN [c EXCEPT !.hasNextPage = FALSE,
                       !.calls[k] =
                           [call EXCEPT !.status = "returned", !.response = r,
                                        !.hasNextPage = FALSE]]
        ELSE LET nodes == r.edges
             IN  [c EXCEPT !.set = @ \cup {n.id : n \in SeqToSet(nodes)},
                           !.offset = NextOffset(nodes, c.offset),
                           !.hasNextPage = r.hasNextPage,
                           !.calls[k] =
                               [call EXCEPT !.status = "returned",
                                            !.response = r,
                                            !.nodes = nodes,
                                            !.hasNextPage = r.hasNextPage]]

\* OnFetchNextResponse that moves offset past a request that failed.
OnFetchNextResponseSkipping(c, k, r) ==
    LET call == c.calls[k]
    IN  IF ThrownBy(r) # NoThrown
        THEN [c EXCEPT !.offset = @ + 1,
                       !.calls[k] =
                [call EXCEPT !.status = "thrown", !.response = r,
                             !.thrown = ThrownBy(r)]]
        ELSE IF r.kind = "null"
        THEN [c EXCEPT !.hasNextPage = FALSE,
                       !.calls[k] =
                           [call EXCEPT !.status = "returned", !.response = r,
                                        !.hasNextPage = FALSE]]
        ELSE LET nodes == NewNodes(r.edges, c.set)
             IN  [c EXCEPT !.set = @ \cup {n.id : n \in SeqToSet(nodes)},
                           !.offset = NextOffset(nodes, c.offset),
                           !.hasNextPage = r.hasNextPage,
                           !.calls[k] =
                               [call EXCEPT !.status = "returned",
                                            !.response = r,
                                            !.nodes = nodes,
                                            !.hasNextPage = r.hasNextPage]]

\* The client c after the response r to the request of its k-th call: the
\* lines of fetchNext after the await fetch.
OnFetchNextResponse(c, k, r) ==
    LET call == c.calls[k]
    IN  IF ThrownBy(r) # NoThrown
        THEN [c EXCEPT !.calls[k] =
                [call EXCEPT !.status = "thrown", !.response = r,
                             !.thrown = ThrownBy(r)]]
        ELSE IF r.kind = "null"
        THEN [c EXCEPT !.hasNextPage = FALSE,
                       !.calls[k] =
                           [call EXCEPT !.status = "returned", !.response = r,
                                        !.hasNextPage = FALSE]]
        ELSE LET nodes == NewNodes(r.edges, c.set)
             IN  [c EXCEPT !.set = @ \cup {n.id : n \in SeqToSet(nodes)},
                           !.offset = NextOffset(nodes, c.offset),
                           !.hasNextPage = r.hasNextPage,
                           !.calls[k] =
                               [call EXCEPT !.status = "returned",
                                            !.response = r,
                                            !.nodes = nodes,
                                            !.hasNextPage = r.hasNextPage]]

\* retrieveClientId answers the call of createTwitchClient, which resolves
\* with the client or rejects.
CreateTwitchClientResponse(outcome) ==
    /\ pc = "clientId"
    /\ IF outcome = "ok"
       THEN /\ client' = NewClient(OffsetSeconds(options))
            /\ pc' = "client"
            /\ UNCHANGED error
       ELSE /\ pc' = "rejected"
            /\ error' = ClientIdThrown(outcome)
            /\ UNCHANGED client
    /\ UNCHANGED <<upstream, options, lengthSeconds, probeResults, chunks, col,
                   completedChunks, progress, settled, result, page>>

\* The page requests the calls of fetchNext have sent.
PagesRequested(c) ==
    Cardinality({k \in 1..Len(c.calls) : c.calls[k].request # None})

\* The caller calls fetchNext.
FetchNextCall ==
    /\ pc = "client"
    /\ Len(client.calls) < MaxCalls
    /\ (upstream.mode = "free" /\ client.hasNextPage) =>
            PagesRequested(client) < MaxFreePages
    /\ client' = FetchNext(client)
    /\ UNCHANGED <<upstream, options, pc, lengthSeconds, probeResults, chunks,
                   col, completedChunks, progress, settled, result, error,
                   page>>

\* The response to the request of the k-th call of fetchNext arrives.
FetchNextResponse(k) ==
    /\ pc = "client"
    /\ k \in 1..Len(client.calls)
    /\ Waiting(client.calls[k])
    /\ \E r \in Responses(upstream, client.calls[k].request) :
          client' = OnFetchNextResponse(client, k, r)
    /\ UNCHANGED <<upstream, options, pc, lengthSeconds, probeResults, chunks,
                   col, completedChunks, progress, settled, result, error,
                   page>>

----------------------------------------------------------------------------
(* The calls the model makes. *)

\* The offsets of a served video's comments: ascending, at most MaxComments.
Offsets == 0..2

AscendingOffsets ==
    {offs \in UNION {[1..n -> Offsets] : n \in 0..MaxComments} :
        \A i \in 1..(Len(offs) - 1) : offs[i] <= offs[i + 1]}

ServedUpstreams ==
    {[mode |-> "video", video |-> MakeVideo(offs), pageSize |-> ps,
      nullPastEnd |-> np] :
        offs \in AscendingOffsets, ps \in 1..MaxPageSize, np \in BOOLEAN}

FreeUpstream ==
    [mode |-> "free", video |-> <<>>, pageSize |-> 1, nullPastEnd |-> FALSE]

Start(u, o) ==
    /\ upstream = u
    /\ options = o
    /\ pc = "clientId"
    /\ lengthSeconds = None
    /\ probeResults = <<>>
    /\ chunks = <<>>
    /\ col = <<>>
    /\ completedChunks = 0
    /\ progress = <<>>
    /\ settled = <<>>
    /\ result = <<>>
    /\ error = NoError
    /\ page = NoPage
    /\ client = NoClient

\* fetchAllMessages is called with lengthSeconds supplied and has sent the
\* request of retrieveClientId.
Init ==
    \/ \E u \in ServedUpstreams, l \in 0..3, c \in 1..3, op \in BOOLEAN :
          Start(u, [concurrency |-> c, lengthSeconds |-> l, onProgress |-> op])
    \/ \E l \in 0..2, c \in 1..2 :
          /\ c = 1 \/ c <= l
          /\ Start(FreeUpstream,
                [concurrency |-> c, lengthSeconds |-> l, onProgress |-> TRUE])

Next ==
    \/ \E outcome \in {"ok", "notOk", "noClientId"} : ClientIdResponse(outcome)
    \/ \E i \in 1..Len(col) : CollectorResponse(i)

Spec == Init /\ [][Next]_vars

----------------------------------------------------------------------------
(* The same call with the length probed or supplied. *)

Served(offs, ps) ==
    [mode |-> "video", video |-> MakeVideo(offs), pageSize |-> ps,
     nullPastEnd |-> TRUE]

\* One comment at 0 (the estimate is 0), and two comments in one page (the
\* estimate is the offset of the last one).
InitAuto ==
    \E u \in {Served(<<0>>, 1), Served(<<0, 5>>, 2)}, l \in {None, 0, 5} :
        Start(u, [concurrency |-> 2, lengthSeconds |-> l, onProgress |-> TRUE])

NextAuto ==
    \/ Next
    \/ \E k \in 1..Len(probeResults) : ProbeResponse(k)

SpecAuto == InitAuto /\ [][NextAuto]_vars

----------------------------------------------------------------------------
(* The call without lengthSeconds: the probes of a video that ends at the   *)
(* second probe, of one that goes on past the last probe, and of endpoints  *)
(* that fail one probe request.                                             *)

\* An endpoint that serves a video but answers the request at offset failAt
\* with failure.
Failing(offs, ps, failAt, failure) ==
    [mode |-> "failing", video |-> MakeVideo(offs), pageSize |-> ps,
     nullPastEnd |-> TRUE, failAt |-> failAt, failure |-> failure]

InitProbe ==
    \E u \in {Served(<<0, 3650>>, 1),
              Served(<<0, 172805, 172806>>, 1),
              Failing(<<0, 3650>>, 1, 3600, NotOk),
              Failing(<<0>>, 1, 0, SchemaMismatch)} :
        Start(u, [concurrency |-> 2, lengthSeconds |-> None, onProgress |-> TRUE])

SpecProbe == InitProbe /\ [][NextAuto]_vars

----------------------------------------------------------------------------
(* The same call on a network that answers in the order of the requests:   *)
(* long videos and many chunks.                                            *)

\* No comment; the last page at the first probe; the last page at the
\* second probe; comments past the last probe.
LongVideos == {<<>>, <<0, 5>>, <<0, 3650>>, <<0, 172800, 172801>>}

InitInOrder ==
    \E offs \in LongVideos, l \in {None, 40, 200, 201}, c \in {3, 40, 201} :
        Start(Served(offs, 1),
              [concurrency |-> c, lengthSeconds |-> l, onProgress |-> TRUE])

\* The oldest request in flight of the probes and of the collector calls.
FirstWaiting(rs) ==
    CHOOSE i \in 1..Len(rs) :
        /\ rs[i].status = "waiting"
        /\ \A j \in 1..(i - 1) : rs[j].status # "waiting"

NextInOrder ==
    \/ \E outcome \in {"ok", "notOk", "noClientId"} : ClientIdResponse(outcome)
    \/ /\ {k \in 1..Len(probeResults) : Waiting(probeResults[k])} # {}
       /\ ProbeResponse(FirstWaiting(probeResults))
    \/ /\ {i \in 1..Len(col) : Waiting(col[i])} # {}
       /\ CollectorResponse(FirstWaiting(col))

SpecInOrder == InitInOrder /\ [][NextInOrder]_vars

----------------------------------------------------------------------------
(* fetchMessages, against served videos and an unconstrained endpoint. *)

InitPage ==
    \E u \in ServedUpstreams \cup {FreeUpstream}, o \in {None} \cup Offsets :
        Start(u, [contentOffsetSeconds |-> o])

NextPage ==
    \/ \E outcome \in {"ok", "notOk", "noClientId"} :
          FetchMessagesClientIdResponse(outcome)
    \/ FetchMessagesResponse

SpecPage == InitPage /\ [][NextPage]_vars

----------------------------------------------------------------------------
(* createTwitchClient and a caller that awaits each fetchNext before the    *)
(* next one.                                                                *)

InitClient ==
    \/ \E u \in ServedUpstreams, o \in {None, 0, 1} :
          Start(u, [offsetSeconds |-> o])
    \/ Start(FreeUpstream, [offsetSeconds |-> None])

NextClient ==
    \/ \E outcome \in {"ok", "notOk", "noClientId"} :
          CreateTwitchClientResponse(outcome)
    \/ /\ \A k \in 1..Len(client.calls) : ~Waiting(client.calls[k])
       /\ FetchNextCall
    \/ \E k \in 1..Len(client.calls) : FetchNextResponse(k)

SpecClient == InitClient /\ [][NextClient]_vars

----------------------------------------------------------------------------
(* The partitions: the call with every lengthSeconds and concurrency up to  *)
(* the bounds, on a video without comments and a network that answers in    *)
(* the order of the requests.                                               *)

InitPartition ==
    \E l \in 1..MaxLength, c \in 1..MaxConcurrency :
        Start(Served(<<>>, 1),
              [concurrency |-> c, lengthSeconds |-> l, onProgress |-> TRUE])

NextPartition ==
    \/ \E outcome \in {"ok", "notOk", "noClientId"} : ClientIdResponse(outcome)
    \/ /\ {i \in 1..Len(col) : Waiting(col[i])} # {}
       /\ CollectorResponse(FirstWaiting(col))

SpecPartition == InitPartition /\ [][NextPartition]_vars

----------------------------------------------------------------------------
(* The call with lengthSeconds supplied on a network that answers every     *)
(* request in flight: served videos, and endpoints that answer every        *)
(* request with the same page and hasNextPage = true.                       *)

\* An endpoint that answers every request with the page of offs and a next
\* page: from the second page on, no id is new.
Stalled(offs) ==
    [mode |-> "stalled", video |-> MakeVideo(offs), pageSize |-> 1,
     nullPastEnd |-> FALSE]

InitFair ==
    \/ \E u \in ServedUpstreams, l \in 0..3, c \in 1..3 :
          Start(u, [concurrency |-> c, lengthSeconds |-> l, onProgress |-> TRUE])
    \/ \E offs \in {<<>>, <<0>>}, l \in 1..3, c \in 1..3 :
          Start(Stalled(offs),
                [concurrency |-> c, lengthSeconds |-> l, onProgress |-> TRUE])

NextFair ==
    \/ \E outcome \in {"ok", "notOk", "noClientId"} : ClientIdResponse(outcome)
    \/ \E i \in 1..Len(col) :
          /\ Len(col[i].requests) < MaxCollectorRequests
          /\ CollectorResponse(i)

SpecFair == InitFair /\ [][NextFair]_vars /\ WF_vars(NextFair)

----------------------------------------------------------------------------
(* The call against endpoints whose answer depends on the requested offset  *)
(* only, with the responses of the probes and of the collector calls in     *)
(* any order.                                                               *)

\* The offsets a fixed endpoint has a page for; past them comments is null.
FixedOffsets == 0..2

\* The pages of a fixed endpoint: two ids, one of them at two offsets, none
\* tied to the offset requested.
FixedPages ==
    {CommentsNull, Comments(<<>>, TRUE),
     Comments(<<Node(1, 0)>>, TRUE), Comments(<<Node(1, 0)>>, FALSE),
     Comments(<<Node(2, 0)>>, TRUE), Comments(<<Node(2, 0)>>, FALSE),
     Comments(<<Node(2, 1)>>, FALSE)}

Fixed(pages) ==
    [mode |-> "fixed", pages |-> pages, video |-> <<>>, pageSize |-> 1,
     nullPastEnd |-> TRUE]

InitFixed ==
    \/ \E pages \in [FixedOffsets -> FixedPages], l \in 1..2, c \in 1..2 :
          Start(Fixed(pages),
                [concurrency |-> c, lengthSeconds |-> l, onProgress |-> TRUE])
    \/ Start(Served(<<0, 3650>>, 1),
             [concurrency |-> 2, lengthSeconds |-> None, onProgress |-> TRUE])

SpecFixed == InitFixed /\ [][NextAuto]_vars

----------------------------------------------------------------------------
(* The call with lengthSeconds supplied and concurrency around 0. *)

InitEdge ==
    \E offs \in {<<>>, <<0>>, <<0, 1, 2>>, <<0, 0, 1>>}, ps \in 1..2,
       l \in 0..4, c \in -1..4, op \in BOOLEAN :
        Start(Served(offs, ps),
              [concurrency |-> c, lengthSeconds |-> l, onProgress |-> op])

SpecEdge == InitEdge /\ [][Next]_vars

----------------------------------------------------------------------------
(* The sequential client against endpoints whose answer depends on the      *)
(* requested offset only, its calls awaited one by one.                     *)

InitAgree ==
    \/ \E pages \in [FixedOffsets -> FixedPages], o \in {None, 0, 1, 2} :
          Start(Fixed(pages), [offsetSeconds |-> o])
    \/ \E u \in ServedUpstreams, o \in {None, 0, 1} :
          Start(u, [offsetSeconds |-> o])

SpecAgree == InitAgree /\ [][NextClient]_vars

----------------------------------------------------------------------------
(* The same client with calls of fetchNext made while others are in flight, *)
(* their responses in any order.                                            *)

NextOverlap ==
    \/ \E outcome \in {"ok", "notOk", "noClientId"} :
          CreateTwitchClientResponse(outcome)
    \/ FetchNextCall
    \/ \E k \in 1..Len(client.calls) : FetchNextResponse(k)

SpecOverlap == InitAgree /\ [][NextOverlap]_vars

----------------------------------------------------------------------------
(* The library: a call of any of its three exported functions. *)

InitLibrary ==
    \/ Init
    \/ Start(Failing(<<0>>, 1, 3600, EmptyArray),
             [concurrency |-> 2, lengthSeconds |-> None, onProgress |-> TRUE])
    \/ InitPage
    \/ InitClient

NextLibrary ==
    \/ "concurrency" \in DOMAIN options /\ NextAuto
    \/ "contentOffsetSeconds" \in DOMAIN options /\ NextPage
    \/ "offsetSeconds" \in DOMAIN options /\ NextClient

SpecLibrary == InitLibrary /\ [][NextLibrary]_vars

----------------------------------------------------------------------------
(* Properties. *)

IdsOf(nodes) == {nodes[i].id : i \in 1..Len(nodes)}

EachIdOnce(nodes) ==
    \A i, j \in 1..Len(nodes) : nodes[i].id = nodes[j].id => i = j

Ascending(nodes) ==
    \A i \in 1..(Len(nodes) - 1) :
        nodes[i].contentOffsetSeconds <= nodes[i + 1].contentOffsetSeconds

Partitioned == lengthSeconds # None /\ lengthSeconds # 0

\* C1: against a served video, a call without lengthSeconds that resolves
\* returns every comment id of the video, the ones at the largest offset
\* included.
C1_CompleteWhenProbed ==
    (pc = "resolved" /\ upstream.mode = "video"
        /\ options.lengthSeconds = None /\ options.concurrency >= 1)
        => IdsOf(upstream.video) \subseteq IdsOf(result)

\* C2: with lengthSeconds = L supplied, every comment offset of the served
\* video in [0, L) and concurrency in 1..|S|, a call that resolves returns
\* exactly the ids of the video, each once.
C2_CoverageUnderPartition ==
    (pc = "resolved" /\ upstream.mode = "video"
        /\ options.lengthSeconds # None /\ options.lengthSeconds >= 1
        /\ \A i \in 1..Len(upstream.video) :
              upstream.video[i].contentOffsetSeconds < options.lengthSeconds
        /\ options.concurrency \in 1..Len(upstream.video))
        => /\ IdsOf(result) = IdsOf(upstream.video)
           /\ Len(result) = Len(upstream.video)

\* C3: the array of a call that resolves holds each comment id at most once,
\* on the partitioned path and on the fallback path, whatever the pages.
C3_EachIdOnce == pc = "resolved" => EachIdOnce(result)

\* C4: the array of a call that resolves is in ascending order of
\* contentOffsetSeconds, on the partitioned path and on the fallback path,
\* whatever the pages.
C4_Ascending == pc = "resolved" => Ascending(result)

\* C5: a collector call with endOffset = E has pushed no node with
\* contentOffsetSeconds >= E, at any time.
C5_BoundEnforced ==
    \A i \in 1..Len(col) :
        col[i].endOffset # None =>
            \A k \in 1..Len(col[i].nodes) :
                col[i].nodes[k].contentOffsetSeconds < col[i].endOffset

\* A bounded collector that pushed a node, then met one at or beyond its
\* endOffset and stopped there.
C5_Witness ==
    \E i \in 1..Len(col) :
        /\ col[i].endOffset # None
        /\ col[i].status = "returned"
        /\ ~col[i].hasNextPage
        /\ col[i].nodes # <<>>
        /\ Len(col[i].requests) = 2

\* C6: on the partitioned path with onProgress supplied, the k-th call of
\* onProgress reports completedChunks = k and totalChunks = the number of
\* chunks; when the call resolves onProgress has been called once per chunk
\* and its last call reported 100.
C6_ProgressMonotone ==
    (Partitioned /\ options.onProgress) =>
        /\ \A k \in 1..Len(progress) :
              /\ progress[k].completedChunks = k
              /\ progress[k].totalChunks = Len(chunks)
        /\ Len(progress) <= Len(chunks)
        /\ pc = "resolved" =>
              /\ Len(progress) = Len(chunks)
              /\ Last(progress).percentage = 100

\* A resolved call of three chunks whose collectors finished in another
\* order than the chunks'.
C6_Witness ==
    /\ pc = "resolved"
    /\ Len(chunks) = 3
    /\ options.onProgress
    /\ settled = <<3, 1, 2>>
    /\ Len(progress) = 3

\* C7 as stated: every onProgress call reports the integer nearest to
\* 100 * completedChunks / totalChunks, ties upwards, and it is above 0 and
\* at most 100.
C7_PercentageAsStated ==
    \A k \in 1..Len(progress) :
        LET r == progress[k]
        IN  /\ r.percentage =
                  (200 * r.completedChunks + r.totalChunks) \div (2 * r.totalChunks)
            /\ r.percentage > 0
            /\ r.percentage <= 100

\* C7 as amended: every onProgress call reports an integer nearest to
\* 100 * completedChunks / totalChunks (either neighbour at a tie), within
\* 0..100, and above 0 when there are at most 200 chunks.
C7_PercentageRange ==
    \A k \in 1..Len(progress) :
        LET r == progress[k]
            d == 200 * r.completedChunks - 2 * r.percentage * r.totalChunks
        IN  /\ d <= r.totalChunks /\ -d <= r.totalChunks
            /\ r.percentage \in 0..100
            /\ r.totalChunks <= 200 => r.percentage > 0

\* A call of more than 200 chunks whose first onProgress call reported 0,
\* and which went on to report 100.
C7_Witness ==
    /\ Len(chunks) > 200
    /\ Len(progress) = Len(chunks)
    /\ progress[1].percentage = 0
    /\ Last(progress).percentage = 100

\* The chunk whose collector threw first.
FirstThrown ==
    settled[CHOOSE k \in 1..Len(settled) :
                /\ col[settled[k]].status = "thrown"
                /\ \A j \in 1..(k - 1) : col[settled[j]].status # "thrown"]

\* C8: on the partitioned path, once a chunk's collector has thrown, the
\* call is rejected with the error of the first collector that threw, and
\* has resolved with no array.
C8_FailFast ==
    (Partitioned /\ \E i \in 1..Len(col) : col[i].status = "thrown") =>
        /\ pc = "rejected"
        /\ error = [name |-> col[FirstThrown].error, chunk |-> FirstThrown]
        /\ error.name \in {"HttpError", "ResponseParseError"}
        /\ result = <<>>

\* Chunk 1 returned nodes, then chunk 2 threw: the call is rejected.
C8_Witness ==
    /\ Len(col) = 2
    /\ settled = <<1, 2>>
    /\ col[1].status = "returned" /\ col[1].nodes # <<>>
    /\ col[2].status = "thrown"
    /\ pc = "rejected"

\* C9: when the resolved length is 0 there is no chunk and one collector
\* call, without endOffset, whose first request is at offset 0; onProgress
\* is not called; the call resolves with that collector's nodes.
C9_Fallback ==
    lengthSeconds = 0 =>
        /\ chunks = <<>>
        /\ Len(col) = 1
        /\ col[1].endOffset = None
        /\ col[1].requests[1] = 0
        /\ pc \in {"fallback", "resolved", "rejected"}
        /\ pc = "resolved" => result = col[1].nodes
        /\ pc = "fallback" <=> Waiting(col[1])

\* The length was probed, the estimate was 0, and the fallback pass returned
\* the video's comment.
C9_Witness ==
    /\ options.lengthSeconds = None
    /\ lengthSeconds = 0
    /\ Len(probeResults) = 17
    /\ pc = "resolved"
    /\ result # <<>>

\* C10: when lengthSeconds is supplied no probe request is sent, the
\* resolved length is the supplied value, and the chunks start at 0 and end
\* at the supplied value.
C10_SkipProbing ==
    options.lengthSeconds # None =>
        /\ probeResults = <<>>
        /\ pc # "probe"
        /\ lengthSeconds \in {None, options.lengthSeconds}
        /\ chunks # <<>> =>
              /\ chunks[1].start = 0
              /\ Last(chunks).end = options.lengthSeconds
        /\ (pc \in {"chunks", "resolved"} /\ options.lengthSeconds > 0) =>
              chunks # <<>>

\* A call with lengthSeconds supplied that resolved over two chunks.
C10_Witness ==
    /\ options.lengthSeconds = 5
    /\ pc = "resolved"
    /\ Len(chunks) = 2
    /\ result # <<>>

\* The offsets of the probe requests, in the order of the ladder: every hour
\* up to 5 hours, then every 4 hours from 8 up to 48.
Ladder ==
    <<0, 3600, 7200, 10800, 14400, 18000, 28800, 43200, 57600, 72000, 86400,
      100800, 115200, 129600, 144000, 158400, 172800>>

\* The page the served video answers to the k-th probe of the ladder.
LadderPage(k) == ServePage(upstream, Ladder[k])

\* The maxOffsetSeconds of that probe: the last edge's offset, else the
\* probed offset.
LadderMax(k) ==
    IF LadderPage(k).kind = "comments" /\ LadderPage(k).edges # <<>>
    THEN Last(LadderPage(k).edges).contentOffsetSeconds
    ELSE Ladder[k]

\* The probes of the ladder whose page has no next page (comments: null
\* counts as none).
LadderEnds ==
    {k \in 1..Len(Ladder) :
        LadderPage(k).kind = "null" \/ ~LadderPage(k).hasNextPage}

\* C11: the length probeVideoLength returns is the maxOffsetSeconds of the
\* first probe, in ladder order, whose hasNextPage is false, in whatever
\* order the responses arrive; probe 0 true and probe 3600 false with its
\* last edge at 3650 gives 3650.
C11_EstimateSelection ==
    (options.lengthSeconds = None /\ lengthSeconds # None
        /\ upstream.mode = "video" /\ LadderEnds # {}) =>
        /\ lengthSeconds =
              LadderMax(CHOOSE k \in LadderEnds : \A j \in LadderEnds : k <= j)
        /\ upstream = Served(<<0, 3650>>, 1) => lengthSeconds = 3650

\* Probe 0 reported a next page, probe 3600 reported none with its last edge
\* at 3650, the later probes got comments: null, and the length is resolved.
C11_Witness ==
    /\ options.lengthSeconds = None
    /\ lengthSeconds = 3650
    /\ probeResults[1].hasNextPage
    /\ ~probeResults[2].hasNextPage /\ probeResults[2].maxOffsetSeconds = 3650
    /\ ~probeResults[3].hasNextPage /\ probeResults[3].maxOffsetSeconds = 7200

\* C12: when every probe of the ladder reports hasNextPage = true, the
\* length probeVideoLength returns is twice the maxOffsetSeconds of the last
\* probe of the ladder.
C12_Overestimate ==
    (options.lengthSeconds = None /\ lengthSeconds # None
        /\ upstream.mode = "video" /\ LadderEnds = {}) =>
        lengthSeconds = 2 * LadderMax(Len(Ladder))

\* Every probe reported a next page, the last one with its last edge at
\* 172805, and the length is resolved to twice that.
C12_Witness ==
    /\ options.lengthSeconds = None
    /\ \A k \in 1..Len(probeResults) : probeResults[k].hasNextPage
    /\ Len(probeResults) = 17
    /\ probeResults[17].maxOffsetSeconds = 172805
    /\ lengthSeconds = 345610
    /\ Len(chunks) = 2

\* C13: once a probe request has been answered with a response that is not
\* ok, or with a payload that is invalid, the call is rejected with
\* HttpError, respectively ResponseParseError, and no collector call, for a
\* chunk or for the fallback, is ever made.
C13_ProbeFailureAborts ==
    (upstream.mode = "failing"
        /\ \E k \in 1..Len(probeResults) :
              /\ probeResults[k].offset = upstream.failAt
              /\ ~Waiting(probeResults[k])) =>
        /\ pc = "rejected"
        /\ error.name = IF upstream.failure = NotOk THEN "HttpError"
                        ELSE "ResponseParseError"
        /\ col = <<>>
        /\ chunks = <<>>
        /\ lengthSeconds = None
        /\ result = <<>>

\* The probe at 3600 got a response that is not ok while others were in
\* flight; the call is rejected with HttpError and every other probe has
\* been answered since.
C13_Witness ==
    /\ upstream.mode = "failing"
    /\ pc = "rejected"
    /\ error.name = "HttpError"
    /\ Len(probeResults) = 17
    /\ probeResults[2].status = "thrown"
    /\ \A k \in 1..Len(probeResults) : ~Waiting(probeResults[k])

\* The nodes the calls of fetchNext have delivered, in call order.
Delivered == Flat([k \in 1..Len(client.calls) |-> client.calls[k].nodes])

\* C14: a call of fetchNext that fetched a page returns the hasNextPage of
\* that page (false for comments: null); once a call has returned
\* hasNextPage = false, every later call returns {nodes: [], hasNextPage:
\* false} and sends no request.
C14_EndAbsorbing ==
    \A k \in 1..Len(client.calls) :
        LET call == client.calls[k]
        IN  /\ (call.status = "returned" /\ call.request # None) =>
                  call.hasNextPage =
                      (call.response.kind = "comments" /\ call.response.hasNextPage)
            /\ (\E j \in 1..(k - 1) :
                    /\ client.calls[j].status = "returned"
                    /\ ~client.calls[j].hasNextPage) =>
                  /\ call.request = None
                  /\ call.status = "returned"
                  /\ call.nodes = <<>>
                  /\ ~call.hasNextPage

\* A first page with a next page, a second page that is the last and brings
\* a node, then two calls that return at once.
C14_Witness ==
    /\ Len(client.calls) = 4
    /\ client.calls[1].status = "returned" /\ client.calls[1].hasNextPage
    /\ client.calls[2].status = "returned" /\ ~client.calls[2].hasNextPage
    /\ client.calls[2].nodes # <<>>
    /\ client.calls[3].request = None
    /\ client.calls[4].request = None

\* C15: over the calls of fetchNext of one client, each awaited before the
\* next, no comment id is delivered twice, whether the id comes back in a
\* later page or twice within one page.
C15_NoIdTwice == EachIdOnce(Delivered)

\* C16: fetchMessages sends one page request, at options.contentOffsetSeconds
\* or at 0 when that is omitted, and only after the client id has arrived;
\* it resolves with the nodes of that page in edge order, all of them, and
\* with no node when the page's comments are null; it sends no second
\* request when the page reports a next page.
C16_SinglePage ==
    /\ pc = "clientId" => page.status = "none"
    /\ pc = "page" <=> page.status = "waiting"
    /\ pc = "resolved" => page.status = "answered"
    /\ page.status # "none" =>
          page.offset = IF options.contentOffsetSeconds = None THEN 0
                        ELSE options.contentOffsetSeconds
    /\ pc = "resolved" =>
          /\ page.response.kind \in {"comments", "null"}
          /\ page.response.kind = "null" => result = <<>>
          /\ page.response.kind = "comments" => result = page.response.edges

\* fetchMessages without contentOffsetSeconds got a page with the same id
\* twice and a next page, and resolved with both nodes.
C16_Witness ==
    /\ options.contentOffsetSeconds = None
    /\ pc = "resolved"
    /\ page.offset = 0
    /\ page.response.hasNextPage
    /\ Len(result) = 2
    /\ result[1].id = result[2].id

\* A response that is not ok, a payload that is not of the schema, an empty
\* top-level array.
Failed(r) == r.kind \in {"notOk", "schemaMismatch", "emptyArray"}

\* The handler that got r ended in status with thrown: HttpError with the
\* status of r and the URL of the endpoint for a response that is not ok,
\* ResponseParseError for an invalid payload, nothing thrown otherwise.
Typed(r, status, thrown) ==
    /\ r.kind = "notOk" =>
          /\ status = "thrown"
          /\ thrown = [name |-> "HttpError", statusCode |-> r.status,
                       url |-> "https://gql.twitch.tv/gql"]
    /\ r.kind \in {"schemaMismatch", "emptyArray"} =>
          /\ status = "thrown"
          /\ thrown.name = "ResponseParseError"
    /\ ~Failed(r) => status # "thrown" /\ thrown.name = "none"

\* C17: whatever response arrives for a page request in flight of a probe, a
\* collector or a fetchNext call, and whatever response fetchMessages got:
\* not ok throws HttpError with the response's status and the endpoint URL,
\* a schema mismatch or an empty array throws ResponseParseError, and the
\* failed request yields no page result (no node, no probe result, no
\* resolved call).
C17_ErrorTyping ==
    /\ \A k \in 1..Len(probeResults) :
          /\ Waiting(probeResults[k]) =>
                \A r \in Responses(upstream, probeResults[k].offset) :
                    LET p == OnProbeResponse(probeResults[k], r)
                    IN  /\ Typed(r, p.status, p.thrown)
                        /\ Failed(r) => p.status # "ok"
          /\ probeResults[k].status = "thrown" =>
                probeResults[k].error = probeResults[k].thrown.name
    /\ \A i \in 1..Len(col) :
          /\ Waiting(col[i]) =>
                \A r \in Responses(upstream, col[i].offset) :
                    LET c == OnResponse(col[i], r)
                    IN  /\ Typed(r, c.status, c.thrown)
                        /\ Failed(r) => c.nodes = col[i].nodes
          /\ col[i].status = "thrown" => col[i].error = col[i].thrown.name
    /\ \A k \in 1..Len(client.calls) :
          Waiting(client.calls[k]) =>
              \A r \in Responses(upstream, client.calls[k].request) :
                  LET c == OnFetchNextResponse(client, k, r).calls[k]
                  IN  /\ Typed(r, c.status, c.thrown)
                      /\ Failed(r) => c.nodes = <<>>
    /\ page.status = "answered" =>
          /\ Typed(page.response,
                   IF pc = "rejected" THEN "thrown" ELSE "returned",
                   IF pc = "rejected" THEN error ELSE NoThrown)
          /\ Failed(page.response) => result = <<>>

\* A harvest of two chunks: the first collector threw HttpError with the
\* status and the endpoint URL, the second ResponseParseError for an empty
\* array.
C17_Witness ==
    /\ Len(col) = 2
    /\ col[1].status = "thrown"
    /\ col[1].thrown = HttpError(500, EndpointUrl)
    /\ col[2].status = "thrown"
    /\ col[2].thrown = ResponseParseError("GraphQL response array is empty")

\* No probe, no collector call, no page request of fetchMessages and no
\* client: no GraphQL request has been sent.
NoGraphQLRequest ==
    /\ probeResults = <<>>
    /\ col = <<>>
    /\ page.status = "none"
    /\ client = NoClient

\* The call is rejected and no page request of its own has failed: it is
\* the client id request that failed.
RejectedByClientId ==
    /\ pc = "rejected"
    /\ \A k \in 1..Len(probeResults) : probeResults[k].status # "thrown"
    /\ \A i \in 1..Len(col) : col[i].status # "thrown"
    /\ page.status # "answered"

\* C18: a call of fetchAllMessages, fetchMessages or createTwitchClient sends
\* no GraphQL request while it waits for the client id; when the client id
\* request fails (HttpError) or its page has no clientId
\* (ClientIdRetrievalError) it is rejected and never sends one; and once the
\* client id has arrived the call never waits for one again.
C18_CredentialFirst ==
    /\ [](pc = "clientId" => NoGraphQLRequest)
    /\ [](RejectedByClientId =>
            /\ error.name \in {"HttpError", "ClientIdRetrievalError"}
            /\ NoGraphQLRequest)
    /\ [][pc # "clientId" => pc' # "clientId"]_vars

\* createTwitchClient was rejected with ClientIdRetrievalError and no client
\* exists.
C18_Witness ==
    /\ "offsetSeconds" \in DOMAIN options
    /\ pc = "rejected"
    /\ error.name = "ClientIdRetrievalError"
    /\ client = NoClient

\* The partition has been built from integers L >= 1 and C >= 1.
PartitionBuilt ==
    /\ pc \in {"chunks", "resolved"}
    /\ options.lengthSeconds # None /\ options.lengthSeconds >= 1
    /\ options.concurrency >= 1

\* ceil(a / b) for integers a >= 1, b >= 1: the least n with n * b >= a.
CeilOf(a, b) == CHOOSE n \in 1..a : n * b >= a /\ (n - 1) * b < a

\* C19: the chunks built from integers L >= 1 and C >= 1 are non-empty
\* ranges [start, end), the first starts at 0, each next one starts where
\* the previous one ends, the last ends at L, and each but the last has
\* size ceil(L / C).
C19_PartitionShape ==
    PartitionBuilt =>
        LET L == options.lengthSeconds
            C == options.concurrency
        IN  /\ chunks # <<>>
            /\ chunks[1].start = 0
            /\ Last(chunks).end = L
            /\ \A k \in 1..Len(chunks) : chunks[k].start < chunks[k].end
            /\ \A k \in 1..(Len(chunks) - 1) :
                  /\ chunks[k + 1].start = chunks[k].end
                  /\ chunks[k].end - chunks[k].start = CeilOf(L, C)
            /\ Len(col) = Len(chunks)
            /\ \A k \in 1..Len(chunks) :
                  /\ col[k].requests[1] = chunks[k].start
                  /\ col[k].endOffset = chunks[k].end

\* L = 10 and C = 4: three chunks of size 3 and a last one of size 1.
C19_Witness ==
    /\ pc = "resolved"
    /\ options.lengthSeconds = 10 /\ options.concurrency = 4
    /\ chunks = <<[start |-> 0, end |-> 3], [start |-> 3, end |-> 6],
                  [start |-> 6, end |-> 9], [start |-> 9, end |-> 10]>>

\* C20 as stated: the partition has at most C chunks, and fewer than C
\* only when L < C.
C20_CountAsStated ==
    PartitionBuilt =>
        /\ Len(chunks) <= options.concurrency
        /\ Len(chunks) < options.concurrency =>
              options.lengthSeconds < options.concurrency

\* C20 as amended: the partition has ceil(L / ceil(L / C)) chunks, which is
\* at most C; it has fewer than C exactly when (C - 1) * ceil(L / C) >= L,
\* which is so whenever L < C (then there are L chunks) and never when C
\* divides L.
C20_ChunkCount ==
    PartitionBuilt =>
        LET L == options.lengthSeconds
            C == options.concurrency
        IN  /\ Len(chunks) = CeilOf(L, CeilOf(L, C))
            /\ Len(chunks) <= C
            /\ Len(chunks) < C <=> (C - 1) * CeilOf(L, C) >= L
            /\ L < C => Len(chunks) = L
            /\ L % C = 0 => Len(chunks) = C

\* L = 5 and C = 4: chunks of size 2 start at 0, 2 and 4, the fourth would
\* start at 6 and is dropped, although L >= C.
C20_Witness ==
    /\ pc = "resolved"
    /\ options.lengthSeconds = 5 /\ options.concurrency = 4
    /\ Len(chunks) = 3
    /\ Last(chunks) = [start |-> 4, end |-> 5]

\* The concatenation of the chunk outputs, in chunk order.
AllNodes == Flat(Results(col))

\* A partitioned call has resolved with the merge of its chunk outputs.
Merged == pc = "resolved" /\ Partitioned

\* The place of the first node with id in nodes.
FirstIndex(nodes, id) ==
    CHOOSE i \in 1..Len(nodes) :
        nodes[i].id = id /\ \A j \in 1..(i - 1) : nodes[j].id # id

\* The place of the last node with id in nodes.
LastIndex(nodes, id) ==
    CHOOSE i \in 1..Len(nodes) :
        nodes[i].id = id /\ \A j \in (i + 1)..Len(nodes) : nodes[j].id # id

\* C21 as stated: of the nodes of one id in the concatenated chunk outputs,
\* the result holds the one that comes first, with its field values.
C21_KeepsFirstAsStated ==
    Merged =>
        \A k \in 1..Len(result) :
            result[k] = AllNodes[FirstIndex(AllNodes, result[k].id)]

\* C21 as amended: the result holds one node for every id of the
\* concatenated chunk outputs, and it is the one that comes last in the
\* concatenation, with its field values.
C21_KeepsLast ==
    Merged =>
        /\ IdsOf(result) = IdsOf(AllNodes)
        /\ EachIdOnce(result)
        /\ \A k \in 1..Len(result) :
              result[k] = AllNodes[LastIndex(AllNodes, result[k].id)]

\* Chunk 1 returned id 2 with offset 0, chunk 2 returned id 2 with offset
\* 1, and the result holds the node of chunk 2.
C21_Witness ==
    /\ Merged
    /\ Len(col) = 2
    /\ col[1].nodes = <<Node(2, 0)>>
    /\ col[2].nodes = <<Node(2, 1)>>
    /\ result = <<Node(2, 1)>>

\* C22: two nodes of the result with different ids and the same
\* contentOffsetSeconds are in the order in which their ids first occur in
\* the concatenated chunk outputs.
C22_StableTieBreak ==
    Merged =>
        \A a, b \in 1..Len(result) :
            (/\ a < b
             /\ result[a].id # result[b].id
             /\ result[a].contentOffsetSeconds = result[b].contentOffsetSeconds) =>
                FirstIndex(AllNodes, result[a].id) < FirstIndex(AllNodes, result[b].id)

\* Two ids at offset 1 in the result, where the id that occurs first in the
\* concatenation has its kept node last in it.
C22_Witness ==
    /\ Merged
    /\ Len(col) = 2
    /\ col[1].nodes = <<Node(2, 0)>>
    /\ col[2].nodes = <<Node(1, 1), Node(2, 1)>>
    /\ result = <<Node(2, 1), Node(1, 1)>>

\* The call has settled and no collector call has a request in flight.
Terminated ==
    /\ pc \in {"resolved", "rejected"}
    /\ \A i \in 1..Len(col) : ~Waiting(col[i])

StalledNeverEnds ==
    upstream.mode = "stalled" => \A i \in 1..Len(col) : Waiting(col[i])

\* C24: against a served video (comments in ascending order, hasNextPage =
\* false or comments null once a page reaches the end) every collector
\* call, with or without endOffset, terminates, for every page size.
C24_Terminates == upstream.mode = "video" => <>Terminated

\* The collector call without endOffset on a video of three comments at
\* three offsets, one comment per page, returned after five requests.
C24_Witness ==
    /\ upstream.mode = "video"
    /\ lengthSeconds = 0
    /\ pc = "resolved"
    /\ Len(col[1].requests) = 5
    /\ Len(result) = 3

----------------------------------------------------------------------------
(* The offsets a collector requests. *)

\* The offsets of the page requests of collector call c never decrease.
NonDecreasing(requests) ==
    \A k \in 1..(Len(requests) - 1) : requests[k] <= requests[k + 1]

\* C25: within one collector call the offsets of successive page requests
\* never decrease, whatever pages the endpoint returns, also pages whose
\* last unseen node has a contentOffsetSeconds below the requested offset.
C25_OffsetsNeverDecrease ==
    \A i \in 1..Len(col) : NonDecreasing(col[i].requests)

\* The nodes of a page whose id the collector call c has not appended yet.
Unseen(c, r) ==
    SelectSeq(r.edges, LAMBDA n : \A k \in 1..Len(c.nodes) : c.nodes[k].id # n.id)

\* The page r goes on (hasNextPage = true) and none of its unseen nodes is
\* at or beyond the endOffset of c.
GoesOn(c, r) ==
    /\ r.kind = "comments"
    /\ r.hasNextPage
    /\ \A k \in 1..Len(Unseen(c, r)) :
           c.endOffset = None \/ Unseen(c, r)[k].contentOffsetSeconds < c.endOffset

\* C26: after a page with hasNextPage = true and no bound hit, the next
\* request of the collector is for the contentOffsetSeconds of the last node
\* appended from that page, or for the previous request offset plus 1 when
\* the page brought no new node (only seen ids, or no edges).
C26_OffsetAdvance ==
    \A i \in 1..Len(col) :
        Waiting(col[i]) =>
            \A r \in Responses(upstream, col[i].offset) :
                GoesOn(col[i], r) =>
                    LET c == OnResponse(col[i], r)
                    IN  /\ Waiting(c)
                        /\ c.nodes = col[i].nodes \o Unseen(col[i], r)
                        /\ c.requests =
                              Append(col[i].requests,
                                     IF Unseen(col[i], r) # <<>>
                                     THEN Last(c.nodes).contentOffsetSeconds
                                     ELSE Last(col[i].requests) + 1)

\* A collector call that advanced both ways: to offset 1 of the node that
\* the page of request 0 brought, then by one after a page without a new
\* node.
C26_Witness ==
    \E i \in 1..Len(col) :
        /\ col[i].requests = <<0, 1, 2>>
        /\ col[i].nodes = <<Node(1, 1)>>

----------------------------------------------------------------------------
(* The ends of a collector call. *)

\* The places in the unseen nodes of page r of those at or beyond the
\* endOffset of c.
Beyond(c, r) ==
    {k \in 1..Len(Unseen(c, r)) :
        c.endOffset # None /\ Unseen(c, r)[k].contentOffsetSeconds >= c.endOffset}

\* The unseen nodes of page r before the first one at or beyond endOffset.
BeforeBound(c, r) ==
    IF Beyond(c, r) = {} THEN Unseen(c, r)
    ELSE SubSeq(Unseen(c, r), 1,
                (CHOOSE k \in Beyond(c, r) : \A j \in Beyond(c, r) : k <= j) - 1)

\* C27: when a collector with endOffset meets, in a page, the first unseen
\* node with contentOffsetSeconds >= endOffset, it appends the unseen nodes
\* before it and none after it (not even those below endOffset), returns,
\* and sends no further request, also when the page reports hasNextPage =
\* true.
C27_BoundDiscardsRest ==
    \A i \in 1..Len(col) :
        Waiting(col[i]) =>
            \A r \in Responses(upstream, col[i].offset) :
                (r.kind = "comments" /\ Beyond(col[i], r) # {}) =>
                    LET c == OnResponse(col[i], r)
                    IN  /\ c.status = "returned"
                        /\ c.nodes = col[i].nodes \o BeforeBound(col[i], r)
                        /\ c.requests = col[i].requests

\* The call for chunk [0, 1) that took the node at offset 0 of its first
\* page, met the node at offset 1 and returned after one request: the page
\* reported hasNextPage = true, so offset moved to 1, and no request was
\* sent for it.
C27_Witness ==
    \E i \in 1..Len(col) :
        /\ col[i].endOffset = 1
        /\ col[i].status = "returned"
        /\ ~col[i].hasNextPage
        /\ col[i].nodes = <<Node(2, 0)>>
        /\ col[i].offset = 1
        /\ col[i].requests = <<0>>

\* C28: after a page with comments null the collector returns the nodes it
\* has, with no further request; after a page with hasNextPage = false it
\* appends the unseen nodes of that page that come before its bound and
\* returns, with no further request.
C28_EndOfStreamStops ==
    \A i \in 1..Len(col) :
        Waiting(col[i]) =>
            \A r \in Responses(upstream, col[i].offset) :
                LET c == OnResponse(col[i], r)
                IN  /\ r.kind = "null" =>
                          /\ c.status = "returned"
                          /\ c.nodes = col[i].nodes
                          /\ c.requests = col[i].requests
                    /\ (r.kind = "comments" /\ ~r.hasNextPage) =>
                          /\ c.status = "returned"
                          /\ c.nodes = col[i].nodes \o BeforeBound(col[i], r)
                          /\ c.requests = col[i].requests

\* A video of one comment at offset 0, served with comments null past its
\* end, fetched in chunks [0, 1) and [1, 2): the first call returned the
\* comment of its only page (hasNextPage = false), the second returned no
\* node after the null page; each sent one request.
C28_Witness ==
    /\ upstream.mode = "video"
    /\ upstream.nullPastEnd
    /\ upstream.video = <<Node(1, 0)>>
    /\ Len(col) = 2
    /\ col[1].status = "returned" /\ col[1].nodes = <<Node(1, 0)>>
    /\ col[1].requests = <<0>>
    /\ col[2].status = "returned" /\ col[2].nodes = <<>>
    /\ col[2].requests = <<1>>

----------------------------------------------------------------------------
(* Failures are not retried. *)

\* Whatever failing response arrives for a request in flight, its handler
\* throws and sends nothing: a collector keeps its requests, a call of
\* fetchNext leaves the calls and the closure variables as they are.
FailsOnce ==
    /\ \A i \in 1..Len(col) :
          Waiting(col[i]) =>
              \A r \in Responses(upstream, col[i].offset) :
                  Failed(r) =>
                      /\ OnResponse(col[i], r).status = "thrown"
                      /\ OnResponse(col[i], r).requests = col[i].requests
    /\ \A k \in 1..Len(probeResults) :
          Waiting(probeResults[k]) =>
              \A r \in Responses(upstream, probeResults[k].offset) :
                  Failed(r) =>
                      OnProbeResponse(probeResults[k], r).status = "thrown"
    /\ \A k \in 1..Len(client.calls) :
          Waiting(client.calls[k]) =>
              \A r \in Responses(upstream, client.calls[k].request) :
                  Failed(r) =>
                      LET c == OnFetchNextResponse(client, k, r)
                      IN  /\ c.calls[k].status = "thrown"
                          /\ Len(c.calls) = Len(client.calls)
                          /\ c.offset = client.offset
                          /\ c.hasNextPage = client.hasNextPage
                          /\ c.set = client.set

\* The failure of a request of fetchAllMessages or fetchMessages has
\* rejected the call.
Propagated ==
    /\ \A i \in 1..Len(col) : col[i].status = "thrown" => pc = "rejected"
    /\ \A k \in 1..Len(probeResults) :
          probeResults[k].status = "thrown" => pc = "rejected"
    /\ (page.status = "answered" /\ Failed(page.response)) =>
          pc = "rejected" /\ error = ThrownBy(page.response)

\* What has failed stays as it is: a collector, a probe or a call of
\* fetchNext that threw and the answered page request take no further step,
\* a rejected call stays rejected with the error it has, and a call
\* rejected by the client id request does nothing more.
FailedForGood ==
    /\ \A i \in 1..Len(col) :
          col[i].status = "thrown" => Len(col') = Len(col) /\ col'[i] = col[i]
    /\ \A k \in 1..Len(probeResults) :
          probeResults[k].status = "thrown" =>
              /\ Len(probeResults') = Len(probeResults)
              /\ probeResults'[k] = probeResults[k]
    /\ \A k \in 1..Len(client.calls) :
          client.calls[k].status = "thrown" =>
              /\ Len(client'.calls) >= Len(client.calls)
              /\ client'.calls[k] = client.calls[k]
    /\ page.status = "answered" => page' = page
    /\ pc = "rejected" => pc' = "rejected" /\ error' = error
    /\ RejectedByClientId => vars' = vars

\* C29: no request that fails is sent again, at any layer: a collector, a
\* probe, the page request of fetchMessages and a call of fetchNext throw
\* on the failing response without sending anything, what threw never acts
\* again, a failed client id request ends the call, and the error rejects
\* the call of fetchAllMessages or fetchMessages for good.
C29_NoRetry == []FailsOnce /\ []Propagated /\ [][FailedForGood]_vars

\* A collector call that fetched a page, sent its second request, got a
\* failure for it and threw: two requests sent, the call rejected.
C29_Witness ==
    /\ pc = "rejected"
    /\ Len(col) = 1
    /\ col[1].status = "thrown"
    /\ col[1].requests = <<0, 1>>
    /\ col[1].nodes # <<>>
    /\ error.chunk = 1

----------------------------------------------------------------------------
(* Requests in flight. *)

\* The collector calls with a request in flight.
InFlight == {i \in 1..Len(col) : Waiting(col[i])}

\* One collector call per chunk, at most concurrency chunks, at most one
\* request in flight per call.
BoundedInFlight ==
    Partitioned =>
        /\ Len(col) = Len(chunks)
        /\ Len(chunks) <= options.concurrency
        /\ Cardinality(InFlight) <= Len(chunks)

\* A step sends at most one request, and it is the next request of a
\* collector call whose previous request was in flight: the step is the
\* handling of that request's page.
OneAtATime ==
    /\ \A i \in 1..Len(col) :
          /\ Len(col') = Len(col)
          /\ col'[i].requests # col[i].requests =>
                /\ Waiting(col[i])
                /\ col'[i].requests = Append(col[i].requests, col'[i].offset)
          /\ Waiting(col'[i]) => Waiting(col[i])
    /\ col # <<>> => Cardinality({i \in 1..Len(col) : col'[i] # col[i]}) <= 1

\* C30: in the chunk phase a collector call has at most one request in
\* flight and sends the next one only when it has handled the page of the
\* previous one, so the requests in flight are never more than the chunks,
\* and the chunks never more than concurrency.
C30_InFlightBound == []BoundedInFlight /\ [][OneAtATime]_vars

\* Three chunks, each call with a request in flight, after more requests
\* than chunks have been sent.
C30_Witness ==
    /\ Len(chunks) = 3
    /\ Cardinality(InFlight) = 3
    /\ Sent(col) > 3

----------------------------------------------------------------------------
(* The collector calls after the rejection. *)

\* C31: after a chunk's collector call has failed and fetchAllMessages has
\* rejected, every other call that still has a request in flight goes on
\* handling its responses until it returns or throws by itself, and no node
\* it collects reaches the caller.
C31_SiblingsGoOn ==
    pc = "rejected" =>
        /\ result = <<>>
        /\ \A i \in 1..Len(col) : Waiting(col[i]) => ENABLED CollectorResponse(i)

\* The call of chunk 1 threw on its first response and rejected the call;
\* the call of chunk 2 then went on, collected nodes and returned; the
\* caller has no array.
C31_Witness ==
    /\ pc = "rejected"
    /\ Len(col) = 2
    /\ settled = <<1, 2>>
    /\ col[1].status = "thrown" /\ col[1].requests = <<0>>
    /\ col[2].status = "returned" /\ col[2].nodes # <<>>
    /\ error.chunk = 1
    /\ result = <<>>

----------------------------------------------------------------------------
(* The order of the responses. *)

\* The one answer of a fixed or served endpoint to a request at offset o.
Answer(u, o) == CHOOSE r \in Responses(u, o) : TRUE

RECURSIVE Alone(_, _)
\* The collector call c run by itself to its end against u.
Alone(u, c) ==
    IF Waiting(c) THEN Alone(u, OnResponse(c, Answer(u, c.offset))) ELSE c

\* The length the call resolves when the probes are answered one after the
\* other in ladder order.
LengthInOrder ==
    IF options.lengthSeconds # None THEN options.lengthSeconds
    ELSE Estimate([k \in 1..Len(ProbeOffsets(ProbeInterval)) |->
                     OnProbeResponse(NewProbe(ProbeOffsets(ProbeInterval)[k]),
                                     Answer(upstream,
                                            ProbeOffsets(ProbeInterval)[k]))])

\* The array of the call when each collector call runs by itself, one chunk
\* after the other.
ResultInOrder ==
    IF LengthInOrder = 0
    THEN Alone(upstream, NewCollector(0, None)).nodes
    ELSE LET cs == Chunks(LengthInOrder, options.concurrency)
         IN  Merge([i \in 1..Len(cs) |->
                      Alone(upstream, NewCollector(cs[i].start, cs[i].end)).nodes])

\* C32: against an endpoint whose answer depends on the requested offset
\* only, the array of a call that resolves is the same whatever the order in
\* which the responses of the probes and of the collector calls arrive.
C32_OrderIndependent ==
    pc = "resolved" => result = ResultInOrder

\* The call of chunk [1, 2) returned before the call of chunk [0, 1); both
\* collected a node at offset 0; the array has the node of chunk [0, 1)
\* first.
C32_Witness ==
    /\ pc = "resolved"
    /\ upstream.mode = "fixed"
    /\ settled = <<2, 1>>
    /\ result = <<Node(1, 0), Node(2, 0)>>

----------------------------------------------------------------------------
(* The ids of the merge. *)

\* C33: the array of a partitioned call that resolves holds exactly the ids
\* of the nodes its collector calls returned, one node for each id, each of
\* them a node that a collector call returned: nodes of different ids are
\* never merged, whatever their offsets.
C33_MergeLosesNoId ==
    Merged =>
        /\ IdsOf(result) = IdsOf(AllNodes)
        /\ Len(result) = Cardinality(IdsOf(AllNodes))
        /\ SeqToSet(result) \subseteq SeqToSet(AllNodes)

\* Three nodes returned by the collector calls, two of them of one id: the
\* array has two nodes, of different ids and of the same offset.
C33_Witness ==
    /\ Merged
    /\ Len(AllNodes) = 3
    /\ Len(result) = 2
    /\ result[1].id # result[2].id
    /\ result[1].contentOffsetSeconds = result[2].contentOffsetSeconds

----------------------------------------------------------------------------
(* The probe requests. *)

\* The multiples of the interval that are probed.
Rungs == <<0, 1, 2, 3, 4, 5, 8, 12, 16, 20, 24, 28, 32, 36, 40, 44, 48>>

\* The probe requests of the call are the 17 of the ladder for the interval
\* of 3600 seconds, strictly increasing up to 48 intervals, and the ladder
\* has this shape for other intervals too.
LadderProbed ==
    /\ probeResults # <<>> =>
          /\ Len(probeResults) = 17
          /\ \A k \in 1..17 : probeResults[k].offset = Rungs[k] * 3600
          /\ \A k \in 1..16 : probeResults[k].offset < probeResults[k + 1].offset
          /\ probeResults[17].offset = 48 * 3600
    /\ \A interval \in {1, 2, 60, 3600} :
          ProbeOffsets(interval) = [k \in 1..17 |-> Rungs[k] * interval]

\* The probe requests are all sent in the step that gets the client id,
\* before any of their responses is handled, and none is sent later.
LadderAtOnce ==
    /\ (probeResults = <<>> /\ probeResults' # <<>>) =>
          /\ pc = "clientId"
          /\ \A k \in 1..Len(probeResults') : Waiting(probeResults'[k])
    /\ probeResults # <<>> =>
          /\ Len(probeResults') = Len(probeResults)
          /\ \A k \in 1..Len(probeResults) :
                probeResults'[k].offset = probeResults[k].offset

\* C34: one call of probeVideoLength sends exactly 17 page requests, at 0,
\* 1..5 and 8, 12, .. 48 times the interval, strictly increasing, all of
\* them before it handles any probe response, whatever concurrency is.
C34_ProbeLadder == []LadderProbed /\ [][LadderAtOnce]_vars

\* The 17 probe requests in flight, none answered yet, in a call with
\* concurrency 3.
C34_Witness ==
    /\ pc = "probe"
    /\ options.concurrency = 3
    /\ Len(probeResults) = 17
    /\ \A k \in 1..Len(probeResults) : Waiting(probeResults[k])

----------------------------------------------------------------------------
(* The ends of the range of concurrency and of the length. *)

\* C35: with an integer concurrency >= 1 and a resolved length >= 0 the
\* call makes the fallback collector call (length 0) or one collector call
\* for each of at least one chunk, and each has sent a request: it never
\* resolves without a collector request.
C35_NoZeroChunkHarvest ==
    (options.concurrency >= 1 /\ lengthSeconds # None /\ lengthSeconds >= 0) =>
        /\ IF lengthSeconds = 0
           THEN chunks = <<>> /\ Len(col) = 1
           ELSE Len(chunks) >= 1 /\ Len(col) = Len(chunks)
        /\ \A i \in 1..Len(col) : Len(col[i].requests) >= 1
        /\ Sent(col) >= 1

\* Length 1 and concurrency 4: one chunk, whose call returned after one
\* request, and the call has resolved.
C35_Witness ==
    /\ options.concurrency = 4
    /\ lengthSeconds = 1
    /\ Len(chunks) = 1
    /\ pc = "resolved"
    /\ Sent(col) = 1

\* C36: with a resolved length other than 0 and concurrency 0 (or below)
\* the call builds no chunk, makes no collector call, never calls
\* onProgress and resolves to the empty array; it does not reject.
C36_NoChunkResolvesEmpty ==
    (options.concurrency <= 0 /\ lengthSeconds # None /\ lengthSeconds # 0) =>
        /\ chunks = <<>>
        /\ col = <<>>
        /\ progress = <<>>
        /\ completedChunks = 0
        /\ pc = "resolved"
        /\ result = <<>>
        /\ error.name = "none"

\* A video of three comments, length 3, concurrency 0, onProgress supplied:
\* resolved to the empty array.
C36_Witness ==
    /\ options.concurrency = 0
    /\ options.onProgress
    /\ lengthSeconds = 3
    /\ Len(upstream.video) = 3
    /\ pc = "resolved"
    /\ result = <<>>

\* C37: when the resolved length is 0 and onProgress is supplied, onProgress
\* is never called: no call reports percentage = 100, and completedChunks
\* is not counted.
C37_FallbackNoProgress ==
    (lengthSeconds = 0 /\ options.onProgress) =>
        /\ progress = <<>>
        /\ completedChunks = 0

\* The fallback call returned nodes and the call resolved with them, with
\* onProgress supplied and never called.
C37_Witness ==
    /\ lengthSeconds = 0
    /\ options.onProgress
    /\ pc = "resolved"
    /\ result # <<>>
    /\ progress = <<>>

----------------------------------------------------------------------------
(* The sequential client after a failure. *)

\* C38: when a call of fetchNext rejects with HttpError or
\* ResponseParseError, offset, hasNextPage and the set of seen ids of the
\* client are as they were before the call, and the next call of fetchNext
\* sends its request at the same offset.
C38_FailureLeavesClient ==
    /\ \A k \in 1..Len(client.calls) :
          Waiting(client.calls[k]) =>
              \A r \in Responses(upstream, client.calls[k].request) :
                  Failed(r) =>
                      LET c == OnFetchNextResponse(client, k, r)
                      IN  /\ c.calls[k].status = "thrown"
                          /\ c.calls[k].thrown.name \in
                                {"HttpError", "ResponseParseError"}
                          /\ c.offset = client.offset
                          /\ c.hasNextPage = client.hasNextPage
                          /\ c.set = client.set
                          /\ Last(FetchNext(c).calls).request =
                                client.calls[k].request
    /\ \A k \in 1..(Len(client.calls) - 1) :
          client.calls[k].status = "thrown" =>
              client.calls[k + 1].request = client.calls[k].request

\* The first call of fetchNext rejected; the second sent its request at
\* the same offset and returned nodes.
C38_Witness ==
    /\ Len(client.calls) = 2
    /\ client.calls[1].status = "thrown"
    /\ client.calls[2].status = "returned"
    /\ client.calls[2].request = client.calls[1].request
    /\ client.calls[2].nodes # <<>>

----------------------------------------------------------------------------
(* The sequential client and the collector call without endOffset. *)

\* The offsets of the requests the calls of fetchNext have sent, in call
\* order.
Requested ==
    [k \in 1..PagesRequested(client) |->
        client.calls[CHOOSE j \in 1..Len(client.calls) :
                        /\ client.calls[j].request # None
                        /\ Cardinality({i \in 1..j :
                               client.calls[i].request # None}) = k].request]

\* The collector call without endOffset from the client's start offset, run
\* by itself against the same endpoint.
Collector == Alone(upstream, NewCollector(OffsetSeconds(options), None))

\* s is the beginning of t.
Prefix(s, t) == Len(s) <= Len(t) /\ s = SubSeq(t, 1, Len(s))

\* A call of fetchNext has returned hasNextPage = false.
Ended ==
    \E k \in 1..Len(client.calls) :
        client.calls[k].status = "returned" /\ ~client.calls[k].hasNextPage

\* C39: against an endpoint whose answer depends on the requested offset
\* only, the calls of fetchNext, each awaited before the next, send the
\* requests of the collector call without endOffset from the same start
\* offset, in the same order, and deliver its nodes in the same order; when
\* fetchNext has returned hasNextPage = false they have sent all its
\* requests and delivered all its nodes.
C39_ClientAgreesWithCollector ==
    (pc = "client" /\ \A k \in 1..Len(client.calls) : ~Waiting(client.calls[k])) =>
        /\ Prefix(Requested, Collector.requests)
        /\ Prefix(Delivered, Collector.nodes)
        /\ Ended => /\ Requested = Collector.requests
                    /\ Delivered = Collector.nodes

\* Against a fixed endpoint, three requests, the last answered with
\* hasNextPage = false, nodes delivered, and a request that brought no new
\* node among them.
C39_Witness ==
    /\ upstream.mode = "fixed"
    /\ Ended
    /\ Len(Requested) = 3
    /\ Len(Delivered) = 2
    /\ Requested = Collector.requests
    /\ \E k \in 1..Len(client.calls) :
          /\ client.calls[k].status = "returned"
          /\ client.calls[k].hasNextPage
          /\ client.calls[k].nodes = <<>>

----------------------------------------------------------------------------
(* Calls of fetchNext that overlap. *)

\* C40: when calls of fetchNext are made without awaiting the previous one
\* and every page has distinct ids, then in whatever order the responses
\* arrive no comment id is delivered by two of the calls, also when they
\* sent the same offset.
C40_OverlapNoDuplicate ==
    \A j, k \in 1..Len(client.calls) :
        j # k =>
            IdsOf(client.calls[j].nodes) \cap IdsOf(client.calls[k].nodes) = {}

\* Two calls sent the same offset and got the same page, the response of
\* the second was handled first: the second delivered the page's nodes, the
\* first none.
C40_Witness ==
    /\ Len(client.calls) >= 2
    /\ client.calls[1].request # None
    /\ client.calls[1].request = client.calls[2].request
    /\ client.calls[1].status = "returned" /\ client.calls[2].status = "returned"
    /\ client.calls[1].response = client.calls[2].response
    /\ client.calls[1].nodes = <<>>
    /\ client.calls[2].nodes # <<>>

====
